---- MODULE Spec2Model ----
(***************************************************************************)
(* Model of the gripper motion-control stack of ESP32-RemoteController:    *)
(* the slope planner (slope_planner.cpp), the PID controller               *)
(* (pid_controller.cpp) and the gripper orchestrator                       *)
(* (gripper_controller.cpp) with its periodic control task, its public     *)
(* API, the FreeRTOS mutex that guards the slot tables and the servo       *)
(* transport (servo_controller.cpp) it talks to.                           *)
(*                                                                         *)
(* Numbers.  The C code computes in 32-bit floats.  The model computes in  *)
(* fixed point: angles (degrees), percents and PID gains are integers in   *)
(* hundredths (Scale), times are integers in milliseconds, and the PID     *)
(* integral is kept in units of 1e-5 (hundredths times milliseconds) so    *)
(* that dt * error is exact.  Quotients are rounded to nearest, as a float *)
(* quotient is; a cast to uint32_t truncates.  A float argument of the     *)
(* API may be NaN (see NaN below); the values the tables hold and the bus  *)
(* delivers are finite, and infinities are outside the model.              *)
(***************************************************************************)
EXTENDS Integers, Sequences, FiniteSets, TLC

(***************************************************************************)
(* Program constants (gripper_controller.h, gripper_controller.cpp,        *)
(* pid_controller.cpp, servo_controller.cpp), in the model's units.        *)
(***************************************************************************)
\* Fixed-point resolution: one unit of the model is 1/Scale of a degree, percent or gain.
Scale == 10 * 10
MAX_GRIPPERS == 4
GRIPPER_CONTROL_FREQUENCY_HZ == 20
GRIPPER_DEFAULT_CLOSED_ANGLE == 16000
GRIPPER_DEFAULT_OPEN_ANGLE == 9000
GRIPPER_DEFAULT_MIN_STEP == 500
GRIPPER_CONTROL_PRECISION == 50
GRIPPER_PERCENT_EPSILON == 10
PID_DEFAULT_DT == 1
PID_DEFAULT_DEAD_ZONE == 0
ANGLE_MAX == 24000
PERCENT_MAX == 10000
MIN_STEP_MIN == 10
MIN_STEP_MAX == 5000
RANGE_GUARD == 10
SERVO_TIME_MIN == 20
SERVO_TIME_MAX == 30000
DEFAULT_MAX_SPEED == 2000
DEFAULT_SLOPE_RATE == 200
DEFAULT_PID_KP == 50
DEFAULT_PID_KI == 10
DEFAULT_PID_KD == 5
DEFAULT_PID_OUTPUT_LIMIT == 1000
DEFAULT_PID_DEAD_ZONE == 50
DEFAULT_FEEDBACK_TIMEOUT_MS == 5000
DEFAULT_SAFETY_STOP_TIMEOUT == 30000

Slots == 0 .. (MAX_GRIPPERS - 1)

\* pdMS_TO_TICKS(1000 / GRIPPER_CONTROL_FREQUENCY_HZ): the control period, ms.
ControlPeriod == 1000 \div GRIPPER_CONTROL_FREQUENCY_HZ

(***************************************************************************)
(* math_utils.h and the arithmetic of the fixed-point representation.      *)
(***************************************************************************)
\* A float that is not a number (IEEE 754 NaN), held as a value outside every
\* range of the model: each ordered comparison with it is false, and arithmetic
\* on it gives it back.
NaN == 0 - 2^30
FLt(a, b) == a # NaN /\ b # NaN /\ a < b
FGt(a, b) == a # NaN /\ b # NaN /\ a > b

Math_abs(value) == IF value = NaN THEN NaN ELSE IF value < 0 THEN -value ELSE value

Math_constrain_value_upper_only(value, min_value, max_value) ==
    IF FGt(value, max_value) THEN max_value ELSE value

Math_constrain_value(value, min_value, max_value) ==
    IF FLt(value, min_value) THEN min_value
    ELSE IF FGt(value, max_value) THEN max_value
    ELSE value

\* A float quotient: a / b rounded to the nearest representable value.
RDiv(a, b) ==
    LET n == IF b < 0 THEN -a ELSE a
        d == Math_abs(b)
    IN  IF n >= 0 THEN (2 * n + d) \div (2 * d)
        ELSE -((2 * (-n) + d) \div (2 * d))

\* (uint32_t)(a / b) for a >= 0, b > 0: the cast truncates.
TruncDiv(a, b) == a \div b

\* uint32_t subtraction now - stamp.  Every stamp is an earlier reading of the
\* same tick counter, so stamp <= now and the difference never wraps within the
\* time the model covers.
U32Sub(a, b) == a - b

FAbsDiff(a, b) == IF a = NaN \/ b = NaN THEN NaN ELSE Math_abs(a - b)

(***************************************************************************)
(* Percent <-> angle mapping (gripper_controller.cpp).                     *)
(***************************************************************************)
\* A mapping with an angle that is not a number, or such an argument: range and
\* quotient are then not numbers, and so is the result.
MappingIsNaN(x, mapping) ==
    x = NaN \/ mapping.open_angle = NaN \/ mapping.closed_angle = NaN

gripper_angle_to_percent(angle, mapping) ==
    IF MappingIsNaN(angle, mapping) THEN NaN ELSE
    LET range == mapping.open_angle - mapping.closed_angle
        percent == IF mapping.reverse_direction
                   THEN RDiv((mapping.open_angle - angle) * 100 * Scale, range)
                   ELSE RDiv((angle - mapping.closed_angle) * 100 * Scale, range)
    IN  IF Math_abs(range) < RANGE_GUARD THEN 0
        ELSE Math_constrain_value(percent, 0, PERCENT_MAX)

gripper_percent_to_angle(percent, mapping) ==
    IF MappingIsNaN(percent, mapping) THEN NaN ELSE
    LET p == Math_constrain_value(percent, 0, PERCENT_MAX)
        range == mapping.open_angle - mapping.closed_angle
        angle == IF mapping.reverse_direction
                 THEN mapping.open_angle - RDiv(p * range, 100 * Scale)
                 ELSE mapping.closed_angle + RDiv(p * range, 100 * Scale)
    IN  Math_constrain_value(angle, 0, ANGLE_MAX)

(***************************************************************************)
(* Slope planner (slope_planner.cpp, slope_planner.hpp).                   *)
(***************************************************************************)
Slope_Init(inc, dec, real_first) ==
    [increase_value |-> inc, decrease_value |-> dec, real_first |-> real_first,
     target |-> 0, now_planning |-> 0, now_real |-> 0, out |-> 0]

Slope_Set_target(s, target) == [s EXCEPT !.target = target]
Slope_Set_now_real(s, real_value) == [s EXCEPT !.now_real = real_value]
Slope_Set_rates(s, inc, dec, real_first) ==
    [s EXCEPT !.increase_value = inc, !.decrease_value = dec,
              !.real_first = real_first]

\* A reset that keeps the target of the planner.
Slope_Reset_keeps_target(s) ==
    [s EXCEPT !.now_planning = 0, !.now_real = 0, !.out = 0]

Slope_Reset(s) ==
    [s EXCEPT !.target = 0, !.now_planning = 0, !.now_real = 0, !.out = 0]

\* A ramp step of twice the rate.
SlopeStep_double_rate(out, p, t, rate, up) ==
    IF Math_abs(p - t) > rate
    THEN (IF up THEN out + 2 * rate ELSE out - 2 * rate)
    ELSE t

\* A ramp step that never snaps to the target.
SlopeStep_never_snaps(out, p, t, rate, up) ==
    IF up THEN out + rate ELSE out - rate

\* One ramp step of `out` from cursor p toward target t with the given rate:
\* up = TRUE adds the rate, up = FALSE subtracts it; snaps when |p - t| <= rate.
SlopeStep(out, p, t, rate, up) ==
    IF Math_abs(p - t) > rate
    THEN (IF up THEN out + rate ELSE out - rate)
    ELSE t

\* An update that never takes the real value as its starting point.
Slope_Update_period_target_first(s) ==
    LET t == s.target
        p == s.now_planning
        up == t > p
        rate == IF (p > 0 /\ t < p) \/ (p < 0 /\ t > p)
                THEN s.decrease_value ELSE s.increase_value
        out1 == IF t = p THEN s.out
                ELSE IF Math_abs(p - t) > rate
                     THEN (IF up THEN s.out + rate ELSE s.out - rate)
                     ELSE t
    IN  [s EXCEPT !.out = out1, !.now_planning = out1]

Slope_Update_period(s) ==
    LET t == s.target
        p == s.now_planning
        anchored == s.real_first /\ s.now_real # NaN /\
                    ((t >= s.now_real /\ s.now_real >= p) \/
                     (t <= s.now_real /\ s.now_real <= p))
        out0 == IF anchored THEN s.now_real ELSE s.out
        out1 ==
            IF p > 0 THEN
                IF t > p THEN SlopeStep(out0, p, t, s.increase_value, TRUE)
                ELSE IF t < p THEN SlopeStep(out0, p, t, s.decrease_value, FALSE)
                ELSE out0
            ELSE IF p < 0 THEN
                IF t < p THEN SlopeStep(out0, p, t, s.increase_value, FALSE)
                ELSE IF t > p THEN SlopeStep(out0, p, t, s.decrease_value, TRUE)
                ELSE out0
            ELSE
                IF t > p THEN SlopeStep(out0, p, t, s.increase_value, TRUE)
                ELSE IF t < p THEN SlopeStep(out0, p, t, s.increase_value, FALSE)
                ELSE out0
    IN  [s EXCEPT !.out = out1, !.now_planning = out1]

(***************************************************************************)
(* PID controller (pid_controller.cpp, pid_controller.hpp).                *)
(* PID_EPSILON (1e-6) is below the model's resolution: x < PID_EPSILON is  *)
(* x <= 0 and x > PID_EPSILON is x > 0.  dt is in milliseconds and         *)
(* integral_error in units of 1e-5.                                        *)
(***************************************************************************)
PID_Init(kp, ki, kd) ==
    [kp |-> kp, ki |-> ki, kd |-> kd, kf |-> 0,
     dt |-> PID_DEFAULT_DT, dead_zone |-> PID_DEFAULT_DEAD_ZONE,
     output_limit |-> 0, integral_limit |-> 0,
     i_variable_speed_a |-> 0, i_variable_speed_b |-> 0,
     i_separate_threshold |-> 0,
     enable_d_first |-> FALSE, enable_integral_limit |-> FALSE,
     enable_output_limit |-> FALSE,
     target |-> 0, feedback |-> 0, output |-> 0, error |-> 0,
     integral_error |-> 0,
     pre_feedback |-> 0, pre_target |-> 0, pre_error |-> 0, pre_output |-> 0,
     state |-> "STOP",
     p_out |-> 0, i_out |-> 0, d_out |-> 0, f_out |-> 0,
     max_error |-> 0, update_count |-> 0]

PID_Set_params(pid, kp, ki, kd) == [pid EXCEPT !.kp = kp, !.ki = ki, !.kd = kd]

PID_Set_output_limit(pid, limit) ==
    [pid EXCEPT !.output_limit = Math_abs(limit), !.enable_output_limit = (limit > 0)]

PID_Set_integral_limit(pid, limit) ==
    [pid EXCEPT !.integral_limit = Math_abs(limit), !.enable_integral_limit = (limit > 0)]

PID_Set_dead_zone(pid, dead_zone) == [pid EXCEPT !.dead_zone = Math_abs(dead_zone)]

PID_Set_feedforward(pid, kf) == [pid EXCEPT !.kf = kf]

PID_Set_derivative_first(pid, enable) == [pid EXCEPT !.enable_d_first = enable]

\* Init_full(): Init, then every parameter; dt falls back to PID_DEFAULT_DT.
PID_Init_full(kp, ki, kd, kf, integral_limit, output_limit, dt, dead_zone, i_variable_speed_a, i_variable_speed_b, i_separate_threshold, d_first) ==
    [PID_Init(kp, ki, kd) EXCEPT
        !.kf = kf,
        !.integral_limit = Math_abs(integral_limit),
        !.output_limit = Math_abs(output_limit),
        !.dt = IF dt > 0 THEN dt ELSE PID_DEFAULT_DT,
        !.dead_zone = Math_abs(dead_zone),
        !.i_variable_speed_a = Math_abs(i_variable_speed_a),
        !.i_variable_speed_b = Math_abs(i_variable_speed_b),
        !.i_separate_threshold = Math_abs(i_separate_threshold),
        !.enable_d_first = d_first,
        !.enable_integral_limit = (integral_limit > 0),
        !.enable_output_limit = (output_limit > 0)]

PID_Reset_to_defaults(pid) ==
    [pid EXCEPT !.target = 0, !.feedback = 0, !.output = 0, !.error = 0,
                !.integral_error = 0,
                !.pre_feedback = 0, !.pre_target = 0, !.pre_error = 0,
                !.pre_output = 0,
                !.p_out = 0, !.i_out = 0, !.d_out = 0, !.f_out = 0,
                !.max_error = 0, !.update_count = 0, !.state = "STOP",
                !.dt = PID_DEFAULT_DT, !.dead_zone = PID_DEFAULT_DEAD_ZONE,
                !.output_limit = 0, !.enable_output_limit = FALSE]

PID_Reset(pid) ==
    [pid EXCEPT !.target = 0, !.feedback = 0, !.output = 0, !.error = 0,
                !.integral_error = 0,
                !.pre_feedback = 0, !.pre_target = 0, !.pre_error = 0,
                !.pre_output = 0,
                !.p_out = 0, !.i_out = 0, !.d_out = 0, !.f_out = 0,
                !.max_error = 0, !.update_count = 0, !.state = "STOP"]

PID_Update_state_saturated_first(pid) ==
    LET abs_error == Math_abs(pid.error)
    IN  IF pid.enable_output_limit /\ Math_abs(pid.output) >= pid.output_limit
             THEN "SATURATED"
        ELSE IF abs_error <= 0 THEN "STOP"
        ELSE IF abs_error <= pid.dead_zone THEN "DEAD_ZONE"
        ELSE "NORMAL"

\* Update_state(): classification from |error|, dead_zone and the output.
PID_Update_state(pid) ==
    LET abs_error == Math_abs(pid.error)
    IN  IF abs_error <= 0 THEN "STOP"
        ELSE IF abs_error <= pid.dead_zone THEN "DEAD_ZONE"
        ELSE IF pid.enable_output_limit /\ Math_abs(pid.output) >= pid.output_limit
             THEN "SATURATED"
        ELSE "NORMAL"

\* The error after the dead-zone handling of Update_period.
PID_DeadZoneError(pid, target, feedback) ==
    LET error == target - feedback
        abs_error == Math_abs(error)
    IN  IF pid.dead_zone > 0
        THEN IF abs_error <= pid.dead_zone THEN 0
             ELSE IF error > 0 THEN error - pid.dead_zone
             ELSE error + pid.dead_zone
        ELSE error

\* integral_ratio * dt * error of the variable-speed integration, in 1e-5 units.
PID_IntegralStep(pid, error) ==
    LET abs_error == Math_abs(error)
        a == pid.i_variable_speed_a
        b == pid.i_variable_speed_b
    IN  IF a <= 0 /\ b <= 0 THEN pid.dt * error
        ELSE IF abs_error <= a THEN pid.dt * error
        ELSE IF abs_error < b THEN RDiv((b - abs_error) * pid.dt * error, b - a)
        ELSE 0

PID_Update_period(pid, target, feedback) ==
    LET raw_abs == Math_abs(target - feedback)
        in_dead == pid.dead_zone > 0 /\ raw_abs <= pid.dead_zone
        stored_target == IF in_dead THEN feedback ELSE target
        error == PID_DeadZoneError(pid, target, feedback)
        abs_error == Math_abs(error)
        max_error == IF abs_error > pid.max_error THEN abs_error ELSE pid.max_error
        p_out == RDiv(pid.kp * error, Scale)
        max_integral == RDiv(pid.integral_limit * 1000 * Scale, pid.ki)
        clamped == IF pid.enable_integral_limit /\ pid.ki > 0
                   THEN Math_constrain_value(pid.integral_error, -max_integral, max_integral)
                   ELSE pid.integral_error
        separated == pid.i_separate_threshold > 0 /\ abs_error >= pid.i_separate_threshold
        integral_error == IF separated THEN 0
                          ELSE clamped + PID_IntegralStep(pid, error)
        i_out == IF separated THEN 0
                 ELSE RDiv(pid.ki * integral_error, 1000 * Scale)
        d_out == IF pid.enable_d_first
                 THEN -RDiv(pid.kd * (feedback - pid.pre_feedback) * 10, pid.dt)
                 ELSE RDiv(pid.kd * (error - pid.pre_error) * 10, pid.dt)
        f_out == RDiv(pid.kf * (target - pid.pre_target), Scale)
        sum == p_out + i_out + d_out + f_out
        output == IF pid.enable_output_limit
                  THEN Math_constrain_value(sum, -pid.output_limit, pid.output_limit)
                  ELSE sum
        upd == [pid EXCEPT !.p_out = p_out, !.i_out = i_out, !.d_out = d_out,
                           !.f_out = f_out,
                           !.target = stored_target, !.feedback = feedback,
                           !.error = error, !.max_error = max_error,
                           !.integral_error = integral_error,
                           !.output = output,
                           !.pre_feedback = feedback, !.pre_target = target,
                           !.pre_error = error, !.pre_output = output,
                           !.update_count = pid.update_count + 1]
    IN  [upd EXCEPT !.state = PID_Update_state(upd)]

(***************************************************************************)
(* Bounds of the model.                                                    *)
(***************************************************************************)
\* The clock runs from 0 to MaxTicks control periods.
MaxTicks == 2
\* The API task makes at most MaxCalls calls in a behaviour.
MaxCalls == 2

MaxTime == MaxTicks * ControlPeriod

(***************************************************************************)
(* State.                                                                  *)
(***************************************************************************)
VARIABLES
    g_gripper_system_initialized, \* gripper_controller.cpp:39
    g_gripper_mutex,              \* holder of the mutex: "free", "tick" or "api"; "null" without a mutex
    g_gripper_status,             \* [Slots -> gripper_status_t]
    g_gripper_mapping,            \* [Slots -> gripper_mapping_t]
    g_gripper_params,             \* [Slots -> gripper_control_params_t]
    g_gripper_pid,                \* [Slots -> PID_controller_c]
    g_gripper_slope,              \* [Slots -> Slope_planner_c]
    legacy_mapping,               \* servo_controller.cpp g_gripper_mapping
    g_servo_initialized,          \* servo_controller.cpp:12
    g_servo_connected,            \* servo_controller.cpp:13
    now,                          \* xTaskGetTickCount() * portTICK_PERIOD_MS
    tick_pc,                      \* position of gripper_control_task
    tick_servo_id,                \* its loop variable servo_id
    last_wake_time,               \* its last_wake_time
    tick_local,                   \* locals of gripper_update_single
    api_pc,                       \* position of the task calling the public API
    api_call,                     \* the call in progress
    api_ret,                      \* the call that returned in this step, with its result
    ncalls,                       \* calls made so far
    bus,                          \* the transport call made in this step, if any
    stopped,                      \* history: slots stopped and not commanded since
    last_good,                    \* history: time of each slot's last position the bus delivered
    unit_before                   \* history: a planner or PID driven on its own, before its last update

slot_vars == <<g_gripper_status, g_gripper_mapping, g_gripper_params,
               g_gripper_pid, g_gripper_slope>>
servo_vars == <<g_servo_initialized, g_servo_connected>>
tick_vars == <<tick_pc, tick_servo_id, last_wake_time, tick_local>>
api_vars == <<api_pc, api_call, api_ret, ncalls>>
hist_vars == <<stopped, last_good, unit_before>>
vars == <<g_gripper_system_initialized, g_gripper_mutex, slot_vars, legacy_mapping,
          servo_vars, now, tick_vars, api_vars, bus, hist_vars>>

NoBus == [kind |-> "none"]
NoUnit == [kind |-> "none"]
NoLocal == [feedback_ok |-> FALSE, moving |-> FALSE, target_angle |-> 0]

(***************************************************************************)
(* gripper_init_default_params: the slot tables after                      *)
(* gripper_controller_init.                                                *)
(***************************************************************************)
DefaultStatus(servo_id, t) ==
    [servo_id |-> servo_id, state |-> "IDLE", mode |-> "OPEN_LOOP",
     current_percent |-> 0, target_percent |-> 0, current_angle |-> 0,
     hardware_angle |-> 0, is_moving |-> FALSE, movement_progress |-> 0,
     movement_start_time |-> 0, movement_duration |-> 0,
     feedback_valid |-> FALSE, last_feedback_time |-> 0, position_error |-> 0,
     total_movements |-> 0, max_position_error |-> 0, last_update_time |-> t]

DefaultMapping ==
    [closed_angle |-> GRIPPER_DEFAULT_CLOSED_ANGLE,
     open_angle |-> GRIPPER_DEFAULT_OPEN_ANGLE,
     min_step |-> GRIPPER_DEFAULT_MIN_STEP,
     max_speed |-> DEFAULT_MAX_SPEED,
     is_calibrated |-> FALSE, reverse_direction |-> FALSE]

DefaultParams ==
    [slope_increase_rate |-> DEFAULT_SLOPE_RATE,
     slope_decrease_rate |-> DEFAULT_SLOPE_RATE,
     slope_real_first |-> TRUE,
     pid_kp |-> DEFAULT_PID_KP, pid_ki |-> DEFAULT_PID_KI, pid_kd |-> DEFAULT_PID_KD,
     pid_output_limit |-> DEFAULT_PID_OUTPUT_LIMIT,
     pid_dead_zone |-> DEFAULT_PID_DEAD_ZONE,
     static_friction_compensation |-> 2 * Scale,
     dynamic_friction_coeff |-> Scale \div 10,
     backlash_compensation |-> Scale,
     max_position_error |-> 5 * Scale,
     feedback_timeout_ms |-> DEFAULT_FEEDBACK_TIMEOUT_MS,
     safety_stop_timeout |-> DEFAULT_SAFETY_STOP_TIMEOUT]

DefaultPid ==
    PID_Set_dead_zone(
        PID_Set_output_limit(
            PID_Init(DefaultParams.pid_kp, DefaultParams.pid_ki, DefaultParams.pid_kd),
            DefaultParams.pid_output_limit),
        DefaultParams.pid_dead_zone)

DefaultSlope ==
    Slope_Init(DefaultParams.slope_increase_rate, DefaultParams.slope_decrease_rate,
               DefaultParams.slope_real_first)

\* servo_controller.cpp:23: the legacy mapping of the servo controller.
LegacyMappingInit ==
    [closed_angle |-> 16000, open_angle |-> 9000, min_step |-> 1500,
     is_configured |-> TRUE]

(***************************************************************************)
(* The servo transport as the orchestrator sees it (servo_controller.cpp). *)
(* bus_ok and angle are the environment's answer on the serial bus.        *)
(***************************************************************************)
\* servo_get_status: fails only when the controller is not initialised; a
\* disconnected servo or a failed bus read leaves current_position at the 0 the
\* memset wrote and still returns true.
servo_get_status(initialized, connected, bus_ok, angle) ==
    IF ~initialized THEN [ok |-> FALSE, current_position |-> 0]
    ELSE IF ~connected THEN [ok |-> TRUE, current_position |-> 0]
    ELSE IF bus_ok THEN [ok |-> TRUE, current_position |-> angle]
    ELSE [ok |-> TRUE, current_position |-> 0]

\* gripper_read_hardware_position: [ok, angle]; angle keeps the caller's 0 on failure.
gripper_read_hardware_position(initialized, connected, bus_ok, angle) ==
    LET st == servo_get_status(initialized, connected, bus_ok, angle)
    IN  IF st.ok THEN [ok |-> TRUE, angle |-> st.current_position]
        ELSE [ok |-> FALSE, angle |-> 0]

\* servo_control_position: the checks before the bus, then move_servo_immediate.
servo_control_position(initialized, connected, angle, time_ms, bus_ok) ==
    /\ initialized
    /\ connected
    /\ ~(FLt(angle, 0) \/ FGt(angle, ANGLE_MAX))
    /\ ~(time_ms < SERVO_TIME_MIN \/ time_ms > SERVO_TIME_MAX)
    /\ bus_ok

\* servo_configure_gripper_mapping: the legacy mapping, replaced when valid.
servo_configure_gripper_mapping(legacy, closed_angle, open_angle, min_step) ==
    IF FLt(closed_angle, 0) \/ FGt(closed_angle, ANGLE_MAX) \/
       FLt(open_angle, 0) \/ FGt(open_angle, ANGLE_MAX) THEN legacy
    ELSE IF FLt(min_step, Scale) \/ FGt(min_step, MIN_STEP_MAX) THEN legacy
    ELSE IF FLt(FAbsDiff(closed_angle, open_angle), min_step) THEN legacy
    ELSE [closed_angle |-> closed_angle, open_angle |-> open_angle,
          min_step |-> min_step, is_configured |-> TRUE]

(***************************************************************************)
(* The FreeRTOS mutex g_gripper_mutex.                                     *)
(***************************************************************************)
\* xSemaphoreTake succeeds for a task when no task holds the mutex.
xSemaphoreTake_ok(mutex) == mutex = "free"
\* xSemaphoreTake times out when the bounded wait ends with the mutex still held.
xSemaphoreTake_timeout(mutex) == mutex # "free"

(***************************************************************************)
(* Public API of the orchestrator: the checks made before the mutex is     *)
(* taken, and the body executed under the mutex.                           *)
(***************************************************************************)
\* A bound check that lets the first id outside the table through.
gripper_validate_servo_id_off_by_one(servo_id) == ~(servo_id > MAX_GRIPPERS)

gripper_validate_servo_id(servo_id) == ~(servo_id >= MAX_GRIPPERS)

\* gripper_configure_mapping, lines 149-164: the parameter validation.
MappingValid(m) ==
    /\ ~(FLt(m.closed_angle, 0) \/ FGt(m.closed_angle, ANGLE_MAX) \/
         FLt(m.open_angle, 0) \/ FGt(m.open_angle, ANGLE_MAX))
    /\ ~(FLt(m.min_step, MIN_STEP_MIN) \/ FGt(m.min_step, MIN_STEP_MAX))
    /\ ~FLt(FAbsDiff(m.closed_angle, m.open_angle), m.min_step)

\* The early returns of each operation before xSemaphoreTake.
ApiPrecheck(c, initialized) ==
    CASE c.op = "configure_mapping" ->
            gripper_validate_servo_id(c.servo_id) /\ ~c.null /\ MappingValid(c.mapping)
      [] c.op = "set_control_params" ->
            gripper_validate_servo_id(c.servo_id) /\ ~c.null
      [] c.op = "set_mode" -> gripper_validate_servo_id(c.servo_id)
      [] c.op = "control_smooth" ->
            /\ gripper_validate_servo_id(c.servo_id)
            /\ ~(FLt(c.target_percent, 0) \/ FGt(c.target_percent, PERCENT_MAX))
            /\ initialized
      [] c.op = "stop" -> gripper_validate_servo_id(c.servo_id)
      [] c.op = "get_current_percent" ->
            gripper_validate_servo_id(c.servo_id) /\ ~c.null
      [] c.op = "get_status" ->
            gripper_validate_servo_id(c.servo_id) /\ ~c.null

\* gripper_configure_mapping, lines 168-169.
ConfigureMappingBody(m) == [m EXCEPT !.is_calibrated = TRUE]

\* gripper_set_control_params, lines 199-206.
SetParamsPid(pid, params) ==
    PID_Set_dead_zone(
        PID_Set_output_limit(
            PID_Set_params(pid, params.pid_kp, params.pid_ki, params.pid_kd),
            params.pid_output_limit),
        params.pid_dead_zone)

SetParamsSlope(slope, params) ==
    Slope_Set_rates(slope, params.slope_increase_rate, params.slope_decrease_rate,
                    params.slope_real_first)

\* A duration always derived from the distance, whatever time the caller gave.
MovementDuration_always_derived(target_percent, time_ms, current_percent, max_speed) ==
    TruncDiv(Math_abs(target_percent - current_percent) * 1000, max_speed)

\* gripper_control_smooth, lines 268-269: the movement duration.
MovementDuration(target_percent, time_ms, current_percent, max_speed) ==
    IF time_ms > 0 THEN time_ms
    ELSE TruncDiv(Math_abs(target_percent - current_percent) * 1000, max_speed)

\* gripper_control_smooth, lines 266-272.
ControlSmoothStatus(status, mapping, target_percent, time_ms, t) ==
    [status EXCEPT !.target_percent = target_percent,
                   !.movement_start_time = t,
                   !.movement_duration =
                        MovementDuration(target_percent, time_ms,
                                         status.current_percent, mapping.max_speed),
                   !.is_moving = TRUE,
                   !.state = "MOVING",
                   !.movement_progress = 0]

\* A stop that leaves the commanded target in place.
StopStatus_keeps_target(status) ==
    [status EXCEPT !.is_moving = FALSE, !.state = "HOLDING"]

\* A stop that leaves is_moving set.
StopStatus_still_moving(status) ==
    [status EXCEPT !.state = "HOLDING", !.target_percent = status.current_percent]

\* gripper_stop, lines 303-305.
StopStatus(status) ==
    [status EXCEPT !.is_moving = FALSE, !.state = "HOLDING",
                   !.target_percent = status.current_percent]

(***************************************************************************)
(* The steps of gripper_update_single.                                     *)
(***************************************************************************)
\* Step 1, lines 391-405: the feedback read by gripper_read_hardware_position.
FeedbackStep(status, mapping, params, rd, t) ==
    IF rd.ok
    THEN [status EXCEPT !.hardware_angle = rd.angle,
                        !.current_angle = rd.angle,
                        !.current_percent = gripper_angle_to_percent(rd.angle, mapping),
                        !.feedback_valid = TRUE,
                        !.last_feedback_time = t]
    ELSE IF U32Sub(t, status.last_feedback_time) > params.feedback_timeout_ms
         THEN [status EXCEPT !.feedback_valid = FALSE, !.state = "ERROR"]
         ELSE status

\* A progress update that stops short of 100 when the time has run out.
gripper_update_movement_progress_never_full(status, t) ==
    LET elapsed == U32Sub(t, status.movement_start_time)
    IN  IF ~status.is_moving \/ status.movement_duration = 0 THEN status
        ELSE IF elapsed >= status.movement_duration THEN status
             ELSE [status EXCEPT !.movement_progress =
                        RDiv(elapsed * 100 * Scale, status.movement_duration)]

\* Step 2: gripper_update_movement_progress.
gripper_update_movement_progress(status, t) ==
    LET elapsed == U32Sub(t, status.movement_start_time)
    IN  IF ~status.is_moving \/ status.movement_duration = 0 THEN status
        ELSE IF elapsed >= status.movement_duration
             THEN [status EXCEPT !.movement_progress = 100 * Scale]
             ELSE [status EXCEPT !.movement_progress =
                        RDiv(elapsed * 100 * Scale, status.movement_duration)]

\* A FORCE_CONTROL case that runs the open loop.
ControlStep_force_as_open_loop(status, mapping, slope, pid) ==
    LET stepped == Slope_Update_period(Slope_Set_now_real(slope, status.current_percent))
        planned_percent == stepped.out
        planned_angle == gripper_percent_to_angle(planned_percent, mapping)
        pid2 == PID_Update_period(pid, planned_angle, status.current_angle)
        position_error == Math_abs(planned_percent - status.current_percent)
    IN  IF ~status.is_moving
        THEN [status |-> status, slope |-> slope, pid |-> pid,
              target_angle |-> status.current_angle]
        ELSE CASE status.mode = "OPEN_LOOP" ->
                    [status |-> status, slope |-> stepped, pid |-> pid,
                     target_angle |-> planned_angle]
               [] status.mode = "CLOSED_LOOP" ->
                    [status |-> [status EXCEPT
                                    !.position_error = position_error,
                                    !.max_position_error =
                                        IF position_error > status.max_position_error
                                        THEN position_error
                                        ELSE status.max_position_error],
                     slope |-> stepped, pid |-> pid2,
                     target_angle |-> status.current_angle + pid2.output]
               [] status.mode = "FORCE_CONTROL" ->
                    [status |-> status, slope |-> stepped, pid |-> pid,
                     target_angle |-> planned_angle]

\* A closed loop that adds the PID output to the planned angle.
ControlStep_absolute_jump(status, mapping, slope, pid) ==
    LET stepped == Slope_Update_period(Slope_Set_now_real(slope, status.current_percent))
        planned_percent == stepped.out
        planned_angle == gripper_percent_to_angle(planned_percent, mapping)
        pid2 == PID_Update_period(pid, planned_angle, status.current_angle)
        position_error == Math_abs(planned_percent - status.current_percent)
    IN  IF ~status.is_moving
        THEN [status |-> status, slope |-> slope, pid |-> pid,
              target_angle |-> status.current_angle]
        ELSE CASE status.mode = "OPEN_LOOP" ->
                    [status |-> status, slope |-> stepped, pid |-> pid,
                     target_angle |-> planned_angle]
               [] status.mode = "CLOSED_LOOP" ->
                    [status |-> [status EXCEPT
                                    !.position_error = position_error,
                                    !.max_position_error =
                                        IF position_error > status.max_position_error
                                        THEN position_error
                                        ELSE status.max_position_error],
                     slope |-> stepped, pid |-> pid2,
                     target_angle |-> planned_angle + pid2.output]
               [] status.mode = "FORCE_CONTROL" ->
                    [status |-> status, slope |-> slope, pid |-> pid,
                     target_angle |-> status.current_angle]

\* Step 3, lines 414-456: the control algorithm of the slot's mode.  The result
\* holds the slot's status, planner and PID after the step and target_angle.
ControlStep(status, mapping, slope, pid) ==
    LET stepped == Slope_Update_period(Slope_Set_now_real(slope, status.current_percent))
        planned_percent == stepped.out
        planned_angle == gripper_percent_to_angle(planned_percent, mapping)
        pid2 == PID_Update_period(pid, planned_angle, status.current_angle)
        position_error == Math_abs(planned_percent - status.current_percent)
    IN  IF ~status.is_moving
        THEN [status |-> status, slope |-> slope, pid |-> pid,
              target_angle |-> status.current_angle]
        ELSE CASE status.mode = "OPEN_LOOP" ->
                    [status |-> status, slope |-> stepped, pid |-> pid,
                     target_angle |-> planned_angle]
               [] status.mode = "CLOSED_LOOP" ->
                    [status |-> [status EXCEPT
                                    !.position_error = position_error,
                                    !.max_position_error =
                                        IF position_error > status.max_position_error
                                        THEN position_error
                                        ELSE status.max_position_error],
                     slope |-> stepped, pid |-> pid2,
                     target_angle |-> status.current_angle + pid2.output]
               [] status.mode = "FORCE_CONTROL" ->
                    [status |-> status, slope |-> slope, pid |-> pid,
                     target_angle |-> status.current_angle]

\* Step 4: gripper_execute_movement, the arguments of servo_control_position.
ExecuteAngle(target_angle) == Math_constrain_value(target_angle, 0, ANGLE_MAX)
ExecuteTime == 1000 \div GRIPPER_CONTROL_FREQUENCY_HZ + 10

\* A completion test without the time of the movement.
gripper_is_movement_complete_without_time(status, slope) ==
    LET position_error == FAbsDiff(status.target_percent, status.current_percent)
        position_reached == FLt(position_error, GRIPPER_CONTROL_PRECISION)
        slope_complete == Math_abs(slope.out - status.target_percent)
                              < GRIPPER_PERCENT_EPSILON
    IN  position_reached \/ slope_complete

\* Step 5: gripper_is_movement_complete.
gripper_is_movement_complete(status, slope) ==
    LET position_error == FAbsDiff(status.target_percent, status.current_percent)
        position_reached == FLt(position_error, GRIPPER_CONTROL_PRECISION)
        time_reached == status.movement_progress >= 100 * Scale
        slope_complete == Math_abs(slope.out - status.target_percent)
                              < GRIPPER_PERCENT_EPSILON
    IN  position_reached \/ time_reached \/ slope_complete

\* A completion that clears is_moving and leaves the state as it was.
FinishStep_keeps_state(status, slope, moving, t) ==
    LET done == IF moving /\ gripper_is_movement_complete(status, slope)
                THEN [status EXCEPT !.is_moving = FALSE,
                                    !.movement_progress = 100 * Scale]
                ELSE status
    IN  [done EXCEPT !.last_update_time = t]

\* A completion that leaves movement_progress where the progress update put it.
FinishStep_keeps_progress(status, slope, moving, t) ==
    LET done == IF moving /\ gripper_is_movement_complete(status, slope)
                THEN [status EXCEPT !.is_moving = FALSE, !.state = "HOLDING"]
                ELSE status
    IN  [done EXCEPT !.last_update_time = t]

\* Lines 462-468 and 472: completion and the update stamp.
FinishStep(status, slope, moving, t) ==
    LET done == IF moving /\ gripper_is_movement_complete(status, slope)
                THEN [status EXCEPT !.is_moving = FALSE, !.state = "HOLDING",
                                    !.movement_progress = 100 * Scale]
                ELSE status
    IN  [done EXCEPT !.last_update_time = t]

(***************************************************************************)
(* Inputs: what the callers of the API and the serial bus may supply.      *)
(***************************************************************************)
\* Angles the servo may report (open and closed of the default mapping).
HwAngles == {9000, 16000}
\* Servo ids outside the table.
BadIds == {MAX_GRIPPERS, 255}
Modes == {"OPEN_LOOP", "CLOSED_LOOP", "FORCE_CONTROL"}
TargetInputs == {0, 10000}
BadTargetInputs == {-1, 10001, 15000}
TimeInputs == {0, 2 * ControlPeriod}

Mapping(closed, open, min_step, reverse) ==
    [closed_angle |-> closed, open_angle |-> open, min_step |-> min_step,
     max_speed |-> DEFAULT_MAX_SPEED, is_calibrated |-> FALSE,
     reverse_direction |-> reverse]

\* Mappings at the edges of the accepted ranges, and just outside them.
GoodMappings == {Mapping(0, 24000, 10, FALSE), Mapping(16000, 11000, 5000, TRUE)}
\* Mappings with an angle or a step that is not a number.
NaNMappings == {Mapping(NaN, 9000, 500, FALSE), Mapping(16000, 9000, NaN, FALSE)}
BadMappings ==
    {Mapping(-1, 9000, 500, FALSE), Mapping(24001, 9000, 500, FALSE),
     Mapping(16000, -1, 500, FALSE), Mapping(16000, 24001, 500, FALSE),
     Mapping(16000, 9000, 9, FALSE), Mapping(16000, 9000, 5001, FALSE),
     Mapping(12000, 12000, 10, FALSE), Mapping(16000, 11001, 5000, TRUE)}

\* Control parameters with a feedback timeout the clock of the model reaches.
ShortTimeoutParams == [DefaultParams EXCEPT !.feedback_timeout_ms = ControlPeriod \div 2]
ParamInputs == {ShortTimeoutParams}

Call(op, servo_id) ==
    [op |-> op, servo_id |-> servo_id, null |-> FALSE, mapping |-> DefaultMapping,
     params |-> DefaultParams, mode |-> "OPEN_LOOP", target_percent |-> 0,
     time_ms |-> 0]
NoCall == Call("none", 0)
NoRet == [call |-> NoCall, ok |-> FALSE, out |-> 0]

Ops == {"configure_mapping", "set_control_params", "set_mode", "control_smooth",
        "stop", "get_current_percent", "get_status"}
PointerOps == {"configure_mapping", "set_control_params", "get_current_percent",
               "get_status"}

CallsOn(ids) ==
    {[Call("configure_mapping", i) EXCEPT !.mapping = m] :
        i \in ids, m \in GoodMappings \cup BadMappings}
    \cup {[Call("set_control_params", i) EXCEPT !.params = q] : i \in ids, q \in ParamInputs}
    \cup {[Call("set_mode", i) EXCEPT !.mode = m] : i \in ids, m \in Modes}
    \cup {[Call("control_smooth", i) EXCEPT !.target_percent = tp, !.time_ms = tm] :
            i \in ids, tp \in TargetInputs \cup BadTargetInputs, tm \in TimeInputs}
    \cup {Call(o, i) : o \in {"stop", "get_current_percent", "get_status"}, i \in ids}
    \cup {[Call(o, i) EXCEPT !.null = TRUE] : o \in PointerOps, i \in ids}

\* The calls of the control specification: every operation that changes a slot,
\* with arguments the checks accept, on slot 0, and a stop of slot 1 so that the task has a second
\* slot to process.
CtlCalls ==
    {c \in CallsOn({0}) : ApiPrecheck(c, TRUE) /\
                           c.op \notin {"configure_mapping", "get_current_percent",
                                        "get_status"}}
    \cup {Call("stop", 1)}

\* The calls of the argument specification: every operation with servo ids
\* outside the table, null pointers, mappings and targets in and out of range,
\* mappings that are not numbers for a slot that stays IDLE, the two queries,
\* and one movement so that the task runs beside them.
ArgCalls ==
    {Call(o, i) : o \in Ops, i \in BadIds}
    \cup {c \in CallsOn({0}) : c.op = "configure_mapping" \/ ~ApiPrecheck(c, TRUE)}
    \cup {[Call("configure_mapping", 1) EXCEPT !.mapping = m] : m \in NaNMappings}
    \cup {Call("get_current_percent", 0), Call("get_status", 0)}
    \cup {[Call("control_smooth", 0) EXCEPT !.target_percent = PERCENT_MAX,
                                            !.time_ms = 2 * ControlPeriod]}

(***************************************************************************)
(* Initial state: after gripper_controller_init, with the servo controller *)
(* not initialised, initialised without a servo, or connected.             *)
(***************************************************************************)
Init ==
    /\ g_gripper_system_initialized = TRUE
    /\ g_gripper_mutex = "free"
    /\ g_gripper_status = [i \in Slots |-> DefaultStatus(i, 0)]
    /\ g_gripper_mapping = [i \in Slots |-> DefaultMapping]
    /\ g_gripper_params = [i \in Slots |-> DefaultParams]
    /\ g_gripper_pid = [i \in Slots |-> DefaultPid]
    /\ g_gripper_slope = [i \in Slots |-> DefaultSlope]
    /\ legacy_mapping = LegacyMappingInit
    /\ g_servo_initialized \in BOOLEAN
    /\ g_servo_connected \in {c \in BOOLEAN : c => g_servo_initialized}
    /\ now = 0
    /\ tick_pc = "scan"
    /\ tick_servo_id = 0
    /\ last_wake_time = 0
    /\ tick_local = NoLocal
    /\ api_pc = "idle"
    /\ api_call = NoCall
    /\ api_ret = NoRet
    /\ ncalls = 0
    /\ bus = NoBus
    /\ stopped = [i \in Slots |-> FALSE]
    /\ last_good = [i \in Slots |-> 0]
    /\ unit_before = NoUnit

(***************************************************************************)
(* gripper_control_task.                                                   *)
(***************************************************************************)
\* Line 363-364: the loop head and the test of the slot's state, which the task
\* reads without the mutex; an IDLE slot is passed over.
TickScan ==
    /\ tick_pc = "scan"
    /\ IF tick_servo_id >= MAX_GRIPPERS
       THEN tick_pc' = "delay" /\ tick_servo_id' = tick_servo_id
       ELSE /\ g_gripper_status[tick_servo_id].state = "IDLE"
            /\ tick_pc' = "scan" /\ tick_servo_id' = tick_servo_id + 1
    /\ bus' = NoBus /\ api_ret' = NoRet
    /\ UNCHANGED <<g_gripper_system_initialized, g_gripper_mutex, slot_vars,
                   legacy_mapping, servo_vars, now, last_wake_time, tick_local,
                   api_pc, api_call, ncalls, hist_vars>>

\* A loop that calls gripper_update_single for every slot, IDLE or not.
TickTake_any_state ==
    /\ tick_pc = "scan"
    /\ tick_servo_id < MAX_GRIPPERS
    /\ xSemaphoreTake_ok(g_gripper_mutex)
    /\ g_gripper_mutex' = "tick"
    /\ tick_pc' = "update"
    /\ bus' = NoBus /\ api_ret' = NoRet
    /\ UNCHANGED <<g_gripper_system_initialized, slot_vars, legacy_mapping,
                   servo_vars, now, tick_servo_id, last_wake_time, tick_local,
                   api_pc, api_call, ncalls, hist_vars>>

\* Lines 364-365 and 379: the slot is not IDLE, gripper_update_single is called
\* and its xSemaphoreTake succeeds (at once, or after a wait shorter than 10 ms).
TickTake ==
    /\ tick_pc = "scan"
    /\ tick_servo_id < MAX_GRIPPERS
    /\ g_gripper_status[tick_servo_id].state # "IDLE"
    /\ xSemaphoreTake_ok(g_gripper_mutex)
    /\ g_gripper_mutex' = "tick"
    /\ tick_pc' = "update"
    /\ bus' = NoBus /\ api_ret' = NoRet
    /\ UNCHANGED <<g_gripper_system_initialized, slot_vars, legacy_mapping,
                   servo_vars, now, tick_servo_id, last_wake_time, tick_local,
                   api_pc, api_call, ncalls, hist_vars>>

\* Lines 379-381: the 10 ms wait ends with the mutex still held;
\* gripper_update_single returns false and the loop goes on to the next slot.
TickTakeTimeout ==
    /\ tick_pc = "scan"
    /\ tick_servo_id < MAX_GRIPPERS
    /\ g_gripper_status[tick_servo_id].state # "IDLE"
    /\ xSemaphoreTake_timeout(g_gripper_mutex)
    /\ tick_pc' = "scan"
    /\ tick_servo_id' = tick_servo_id + 1
    /\ bus' = NoBus /\ api_ret' = NoRet
    /\ UNCHANGED <<g_gripper_system_initialized, g_gripper_mutex, slot_vars,
                   legacy_mapping, servo_vars, now, last_wake_time, tick_local,
                   api_pc, api_call, ncalls, hist_vars>>

\* Lines 383-456: feedback read, progress and control algorithm.
TickUpdateWith(oks, angles) ==
    /\ tick_pc = "update"
    /\ \E bus_ok \in oks, angle \in angles :
        LET sid == tick_servo_id
            rd == gripper_read_hardware_position(g_servo_initialized,
                        g_servo_connected, bus_ok, angle)
            fed == FeedbackStep(g_gripper_status[sid], g_gripper_mapping[sid],
                                g_gripper_params[sid], rd, now)
            prog == gripper_update_movement_progress(fed, now)
            ctl == ControlStep(prog, g_gripper_mapping[sid], g_gripper_slope[sid],
                               g_gripper_pid[sid])
        IN  /\ g_gripper_status' = [g_gripper_status EXCEPT ![sid] = ctl.status]
            /\ g_gripper_slope' = [g_gripper_slope EXCEPT ![sid] = ctl.slope]
            /\ g_gripper_pid' = [g_gripper_pid EXCEPT ![sid] = ctl.pid]
            /\ tick_local' = [feedback_ok |-> rd.ok, moving |-> prog.is_moving,
                              target_angle |-> ctl.target_angle]
            /\ bus' = [kind |-> "read", servo_id |-> sid,
                       ok |-> g_servo_initialized /\ g_servo_connected /\ bus_ok]
            /\ last_good' = IF g_servo_initialized /\ g_servo_connected /\ bus_ok
                            THEN [last_good EXCEPT ![sid] = now]
                            ELSE last_good
    /\ tick_pc' = "execute"
    /\ api_ret' = NoRet
    /\ UNCHANGED <<g_gripper_system_initialized, g_gripper_mutex, g_gripper_mapping,
                   g_gripper_params, legacy_mapping, servo_vars, now, tick_servo_id,
                   last_wake_time, api_pc, api_call, ncalls, stopped, unit_before>>

TickUpdate == TickUpdateWith(BOOLEAN, HwAngles)

\* Line 459: gripper_execute_movement, inside the branch taken when is_moving.
TickExecute ==
    /\ tick_pc = "execute"
    /\ IF tick_local.moving
       THEN \E bus_ok \in BOOLEAN :
                bus' = [kind |-> "move", servo_id |-> tick_servo_id,
                        angle |-> ExecuteAngle(tick_local.target_angle),
                        time_ms |-> ExecuteTime,
                        ok |-> servo_control_position(g_servo_initialized,
                                    g_servo_connected,
                                    ExecuteAngle(tick_local.target_angle),
                                    ExecuteTime, bus_ok)]
       ELSE bus' = NoBus
    /\ tick_pc' = "finish"
    /\ api_ret' = NoRet
    /\ UNCHANGED <<g_gripper_system_initialized, g_gripper_mutex, slot_vars,
                   legacy_mapping, servo_vars, now, tick_servo_id, last_wake_time,
                   tick_local, api_pc, api_call, ncalls, hist_vars>>

\* A tick of a slot that returns without xSemaphoreGive.
TickFinish_keeps_mutex ==
    /\ tick_pc = "finish"
    /\ g_gripper_status' =
          [g_gripper_status EXCEPT ![tick_servo_id] =
              FinishStep(g_gripper_status[tick_servo_id],
                         g_gripper_slope[tick_servo_id], tick_local.moving, now)]
    /\ g_gripper_mutex' = g_gripper_mutex
    /\ tick_local' = NoLocal
    /\ tick_pc' = "scan"
    /\ tick_servo_id' = tick_servo_id + 1
    /\ bus' = NoBus /\ api_ret' = NoRet
    /\ UNCHANGED <<g_gripper_system_initialized, g_gripper_mapping, g_gripper_params,
                   g_gripper_pid, g_gripper_slope, legacy_mapping, servo_vars, now,
                   last_wake_time, api_pc, api_call, ncalls, hist_vars>>

\* Lines 461-475: completion, update stamp, xSemaphoreGive, and the loop step.
TickFinish ==
    /\ tick_pc = "finish"
    /\ g_gripper_status' =
          [g_gripper_status EXCEPT ![tick_servo_id] =
              FinishStep(g_gripper_status[tick_servo_id],
                         g_gripper_slope[tick_servo_id], tick_local.moving, now)]
    /\ g_gripper_mutex' = "free"
    /\ tick_local' = NoLocal
    /\ tick_pc' = "scan"
    /\ tick_servo_id' = tick_servo_id + 1
    /\ bus' = NoBus /\ api_ret' = NoRet
    /\ UNCHANGED <<g_gripper_system_initialized, g_gripper_mapping, g_gripper_params,
                   g_gripper_pid, g_gripper_slope, legacy_mapping, servo_vars, now,
                   last_wake_time, api_pc, api_call, ncalls, hist_vars>>

\* Line 374: vTaskDelayUntil(&last_wake_time, control_period).  The task sleeps
\* to the start of the next period; the clock of the model is the clock the task
\* paces itself by, so it advances here, one period per cycle of the loop,
\* up to max_time.
TickDelayUntil(max_time) ==
    /\ tick_pc = "delay"
    /\ now + ControlPeriod <= max_time
    /\ last_wake_time' = last_wake_time + ControlPeriod
    /\ now' = last_wake_time + ControlPeriod
    /\ tick_pc' = "scan"
    /\ tick_servo_id' = 0
    /\ bus' = NoBus /\ api_ret' = NoRet
    /\ UNCHANGED <<g_gripper_system_initialized, g_gripper_mutex, slot_vars,
                   legacy_mapping, servo_vars, tick_local, api_pc, api_call,
                   ncalls, hist_vars>>

TickDelay == TickDelayUntil(MaxTime)

(***************************************************************************)
(* The task that calls the public API.                                     *)
(***************************************************************************)
Ret(c, ok, out) == [call |-> c, ok |-> ok, out |-> out]

\* A call that takes the mutex although another task holds it.
ApiEntry_no_timeout(c, initialized, mutex) ==
    IF ~ApiPrecheck(c, initialized) THEN "rejected" ELSE "taken"

\* An entry that does not look at target_percent.
ApiEntry_percent_unchecked(c, initialized, mutex) ==
    IF ~ApiPrecheck([c EXCEPT !.target_percent = 0], initialized) THEN "rejected"
    ELSE IF xSemaphoreTake_timeout(mutex) THEN "timeout"
    ELSE "taken"

\* What happens when call c is made: "rejected" by the checks before
\* xSemaphoreTake, "timeout" of the bounded wait (100 ms, 50 ms for the getters)
\* when the mutex stays held, or "taken".
ApiEntry(c, initialized, mutex) ==
    IF ~ApiPrecheck(c, initialized) THEN "rejected"
    ELSE IF xSemaphoreTake_timeout(mutex) THEN "timeout"
    ELSE "taken"

\* One of calls is made, while fewer than max_calls have been.  It returns false when rejected or timed out, and else holds
\* the mutex with its body still to run.
ApiCallFrom(calls, max_calls) ==
    /\ api_pc = "idle"
    /\ ncalls < max_calls
    /\ \E c \in calls :
          IF ApiEntry(c, g_gripper_system_initialized, g_gripper_mutex) = "taken"
          THEN /\ api_pc' = "body" /\ api_call' = c /\ api_ret' = NoRet
               /\ g_gripper_mutex' = "api"
          ELSE /\ api_pc' = "idle" /\ api_call' = NoCall
               /\ api_ret' = Ret(c, FALSE, 0)
               /\ g_gripper_mutex' = g_gripper_mutex
    /\ ncalls' = ncalls + 1
    /\ bus' = NoBus
    /\ UNCHANGED <<g_gripper_system_initialized, slot_vars, legacy_mapping,
                   servo_vars, now, tick_vars, hist_vars>>

ApiCall == ApiCallFrom(CtlCalls, MaxCalls)

ApiCallArgs == ApiCallFrom(ArgCalls, MaxCalls)

\* The slot tables after the body of call c, executed at time t.
BodyStatus(c, t) ==
    LET i == c.servo_id
    IN  CASE c.op = "set_mode" ->
                [g_gripper_status EXCEPT ![i].mode = c.mode]
          [] c.op = "control_smooth" ->
                [g_gripper_status EXCEPT ![i] =
                    ControlSmoothStatus(g_gripper_status[i], g_gripper_mapping[i],
                                        c.target_percent, c.time_ms, t)]
          [] c.op = "stop" ->
                [g_gripper_status EXCEPT ![i] = StopStatus(g_gripper_status[i])]
          [] OTHER -> g_gripper_status

BodyMapping(c) ==
    IF c.op = "configure_mapping"
    THEN [g_gripper_mapping EXCEPT ![c.servo_id] = ConfigureMappingBody(c.mapping)]
    ELSE g_gripper_mapping

BodyParams(c) ==
    IF c.op = "set_control_params"
    THEN [g_gripper_params EXCEPT ![c.servo_id] = c.params]
    ELSE g_gripper_params

BodyPid(c) ==
    LET i == c.servo_id
    IN  CASE c.op = "set_control_params" ->
                [g_gripper_pid EXCEPT ![i] = SetParamsPid(g_gripper_pid[i], c.params)]
          [] c.op = "set_mode" /\ c.mode # g_gripper_status[i].mode ->
                [g_gripper_pid EXCEPT ![i] = PID_Reset(g_gripper_pid[i])]
          [] OTHER -> g_gripper_pid

\* One planner shared by every slot: a new target reaches all of them.
BodySlope_shared_planner(c) ==
    LET i == c.servo_id
    IN  CASE c.op = "set_control_params" ->
                [g_gripper_slope EXCEPT ![i] = SetParamsSlope(g_gripper_slope[i], c.params)]
          [] c.op = "set_mode" /\ c.mode # g_gripper_status[i].mode ->
                [g_gripper_slope EXCEPT ![i] = Slope_Reset(g_gripper_slope[i])]
          [] c.op = "control_smooth" ->
                [j \in Slots |-> Slope_Set_target(g_gripper_slope[j], c.target_percent)]
          [] c.op = "stop" ->
                [g_gripper_slope EXCEPT ![i] =
                    Slope_Set_target(g_gripper_slope[i],
                                     g_gripper_status[i].current_percent)]
          [] OTHER -> g_gripper_slope

BodySlope(c) ==
    LET i == c.servo_id
    IN  CASE c.op = "set_control_params" ->
                [g_gripper_slope EXCEPT ![i] = SetParamsSlope(g_gripper_slope[i], c.params)]
          [] c.op = "set_mode" /\ c.mode # g_gripper_status[i].mode ->
                [g_gripper_slope EXCEPT ![i] = Slope_Reset(g_gripper_slope[i])]
          [] c.op = "control_smooth" ->
                [g_gripper_slope EXCEPT ![i] =
                    Slope_Set_target(g_gripper_slope[i], c.target_percent)]
          [] c.op = "stop" ->
                [g_gripper_slope EXCEPT ![i] =
                    Slope_Set_target(g_gripper_slope[i],
                                     g_gripper_status[i].current_percent)]
          [] OTHER -> g_gripper_slope

\* The value written through the caller's output pointer.
BodyOut(c) ==
    CASE c.op = "get_current_percent" -> g_gripper_status[c.servo_id].current_percent
      [] c.op = "get_status" -> g_gripper_status[c.servo_id]
      [] OTHER -> 0

\* The body of the operation under the mutex, xSemaphoreGive and return true.
ApiBody ==
    /\ api_pc = "body"
    /\ g_gripper_status' = BodyStatus(api_call, now)
    /\ g_gripper_mapping' = BodyMapping(api_call)
    /\ g_gripper_params' = BodyParams(api_call)
    /\ g_gripper_pid' = BodyPid(api_call)
    /\ g_gripper_slope' = BodySlope(api_call)
    /\ legacy_mapping' =
          IF api_call.op = "configure_mapping"
          THEN servo_configure_gripper_mapping(legacy_mapping,
                    api_call.mapping.closed_angle, api_call.mapping.open_angle,
                    api_call.mapping.min_step)
          ELSE legacy_mapping
    /\ stopped' = CASE api_call.op = "stop" -> [stopped EXCEPT ![api_call.servo_id] = TRUE]
                    [] api_call.op = "control_smooth" ->
                            [stopped EXCEPT ![api_call.servo_id] = FALSE]
                    [] OTHER -> stopped
    /\ g_gripper_mutex' = "free"
    /\ api_ret' = Ret(api_call, TRUE, BodyOut(api_call))
    /\ api_pc' = "idle"
    /\ api_call' = NoCall
    /\ bus' = NoBus
    /\ UNCHANGED <<g_gripper_system_initialized, servo_vars, now, tick_vars, ncalls,
                   last_good, unit_before>>

Next ==
    \/ TickScan
    \/ TickTake
    \/ TickTakeTimeout
    \/ TickUpdate
    \/ TickExecute
    \/ TickFinish
    \/ TickDelay
    \/ ApiCall
    \/ ApiBody

Spec == Init /\ [][Next]_vars

\* The same tasks with the caller making the calls of ArgCalls.
NextArgs ==
    \/ TickScan
    \/ TickTake
    \/ TickTakeTimeout
    \/ TickUpdate
    \/ TickExecute
    \/ TickFinish
    \/ TickDelay
    \/ ApiCallArgs
    \/ ApiBody

SpecArgs == Init /\ [][NextArgs]_vars

(***************************************************************************)
(* The end-to-end scenario: slot 0 is configured closed 160, open 90, step *)
(* 5, put in CLOSED_LOOP and commanded to 100 percent, each call at any    *)
(* time; the servo is connected, every read succeeds, and the angle it     *)
(* reports goes from closed to open by one minimum step per period.        *)
(***************************************************************************)
MaxE2ETicks == 16
MaxE2ETime == MaxE2ETicks * ControlPeriod

E2EMapping ==
    Mapping(GRIPPER_DEFAULT_CLOSED_ANGLE, GRIPPER_DEFAULT_OPEN_ANGLE,
            GRIPPER_DEFAULT_MIN_STEP, FALSE)

\* The calls of the scenario in their order; the command is given the time of
\* the scenario, a shorter one, or none.
E2EScript ==
    << {[Call("configure_mapping", 0) EXCEPT !.mapping = E2EMapping]},
       {[Call("set_mode", 0) EXCEPT !.mode = "CLOSED_LOOP"]},
       {[Call("control_smooth", 0) EXCEPT !.target_percent = PERCENT_MAX,
                                          !.time_ms = tm] : tm \in {0, 500, 2000}} >>

\* The angle the servo reports at time t, and the time from which it reports
\* the open angle.
E2EAngle(t) ==
    LET a == GRIPPER_DEFAULT_CLOSED_ANGLE - (GRIPPER_DEFAULT_MIN_STEP \div ControlPeriod) * t
    IN  IF a < GRIPPER_DEFAULT_OPEN_ANGLE THEN GRIPPER_DEFAULT_OPEN_ANGLE ELSE a
E2ESettled ==
    ((GRIPPER_DEFAULT_CLOSED_ANGLE - GRIPPER_DEFAULT_OPEN_ANGLE) * ControlPeriod)
        \div GRIPPER_DEFAULT_MIN_STEP

InitE2E == Init /\ g_servo_initialized /\ g_servo_connected

TickUpdateE2E == TickUpdateWith({TRUE}, {E2EAngle(now)})

TickDelayE2E == TickDelayUntil(MaxE2ETime)

ApiCallE2E ==
    /\ ncalls < Len(E2EScript)
    /\ ApiCallFrom(E2EScript[ncalls + 1], Len(E2EScript))

\* No call follows the command, so the task never finds the mutex held.
NextE2E ==
    \/ TickScan
    \/ TickTake
    \/ TickUpdateE2E
    \/ TickExecute
    \/ TickFinish
    \/ TickDelayE2E
    \/ ApiCallE2E
    \/ ApiBody

SpecE2E == InitE2E /\ [][NextE2E]_vars

(***************************************************************************)
(* The scenario of a mapping that is not a number: slot 0 is given a       *)
(* mapping whose closed or open angle is NaN and is then commanded in the  *)
(* default OPEN_LOOP mode with an explicit time, each call at any time;    *)
(* the servo reports the angles of HwAngles.                               *)
(***************************************************************************)
NaNScript ==
    << {[Call("configure_mapping", 0) EXCEPT !.mapping = m] :
            m \in {Mapping(NaN, GRIPPER_DEFAULT_OPEN_ANGLE, GRIPPER_DEFAULT_MIN_STEP, FALSE),
                   Mapping(GRIPPER_DEFAULT_CLOSED_ANGLE, NaN, GRIPPER_DEFAULT_MIN_STEP, TRUE)}},
       {[Call("control_smooth", 0) EXCEPT !.target_percent = p, !.time_ms = tm] :
            p \in TargetInputs, tm \in {2 * ControlPeriod, 2000}} >>

ApiCallNaN ==
    /\ ncalls < Len(NaNScript)
    /\ ApiCallFrom(NaNScript[ncalls + 1], Len(NaNScript))

\* The slot is IDLE while a call of the script holds the mutex, so the task
\* never finds the mutex held at a slot it has to process.
NextNaN ==
    \/ TickScan
    \/ TickTake
    \/ TickUpdate
    \/ TickExecute
    \/ TickFinish
    \/ TickDelay
    \/ ApiCallNaN
    \/ ApiBody

SpecNaN == Init /\ [][NextNaN]_vars

(***************************************************************************)
(* A timed movement left to the task: slot 0 is given a mode and is then   *)
(* commanded once with an explicit time, each call at any time; the servo  *)
(* reports the angles of LiveAngles or fails to answer.                    *)
(* The task keeps running (vTaskDelayUntil always returns) and a call that *)
(* holds the mutex returns, so the task's 10 ms wait for the mutex always  *)
(* succeeds.                                                               *)
(***************************************************************************)
MaxLiveTicks == 3
MaxLiveTime == MaxLiveTicks * ControlPeriod

\* Half open and closed, in hundredths of a degree.
LiveAngles == {12500, GRIPPER_DEFAULT_CLOSED_ANGLE}
LiveTargets == {3000, PERCENT_MAX}
LiveTimes == {ControlPeriod, 2 * ControlPeriod}

LiveScript ==
    << {[Call("set_mode", 0) EXCEPT !.mode = m] : m \in Modes},
       {[Call("control_smooth", 0) EXCEPT !.target_percent = p, !.time_ms = tm] :
            p \in LiveTargets, tm \in LiveTimes} >>

TickUpdateLive == TickUpdateWith(BOOLEAN, LiveAngles)

TickDelayLive == TickDelayUntil(MaxLiveTime)

ApiCallLive ==
    /\ ncalls < Len(LiveScript)
    /\ ApiCallFrom(LiveScript[ncalls + 1], Len(LiveScript))

NextLive ==
    \/ TickScan
    \/ TickTake
    \/ TickUpdateLive
    \/ TickExecute
    \/ TickFinish
    \/ TickDelayLive
    \/ ApiCallLive
    \/ ApiBody

\* The steps of the task other than the update step, and the update step by
\* its place in the task: TickUpdateLive is enabled whenever tick_pc = "update"
\* and is the only action that leaves it.
TickRuns ==
    \/ TickScan
    \/ TickTake
    \/ TickExecute
    \/ TickFinish
    \/ TickDelayLive
TickUpdateRuns == tick_pc = "update" /\ tick_pc' = "execute"

\* The task is never suspended for good and a call that holds the mutex returns.
SpecLive ==
    /\ Init /\ [][NextLive]_vars
    /\ WF_vars(TickRuns) /\ WF_tick_pc(TickUpdateRuns)
    /\ WF_vars(ApiBody)

(***************************************************************************)
(* The life cycle of the controller as one caller drives it:               *)
(* gripper_controller_deinit, gripper_controller_init and the operations   *)
(* of the public API, called one after the other in any order.  The        *)
(* periodic task is left out: deinit deletes it, and the operations are    *)
(* looked at for what they do when there is no controller.  The            *)
(* allocations of init succeed.                                            *)
(***************************************************************************)
MaxLifeCalls == 3

\* One call of each operation with arguments its checks accept, and calls with
\* a servo id outside the table.
LifeCalls ==
    {c \in CallsOn({0}) : ApiPrecheck(c, TRUE)}
    \cup {Call("get_status", i) : i \in BadIds}

\* xSemaphoreTake(nullptr, ...): undefined.  With configASSERT compiled in, the
\* assertion on the handle fails and the firmware aborts; without it the queue
\* is read through the null handle and the load faults.
NullTakeOutcomes == {"assert", "fault"}

\* Lines 119-140.
LifeDeinit ==
    /\ api_pc = "idle"
    /\ ncalls < MaxLifeCalls
    /\ IF g_gripper_system_initialized
       THEN /\ g_gripper_mutex' = "null"
            /\ g_gripper_system_initialized' = FALSE
       ELSE UNCHANGED <<g_gripper_mutex, g_gripper_system_initialized>>
    /\ ncalls' = ncalls + 1
    /\ api_ret' = NoRet /\ bus' = NoBus
    /\ UNCHANGED <<slot_vars, legacy_mapping, servo_vars, now, tick_vars,
                   api_pc, api_call, hist_vars>>

\* Lines 66-117: a second init returns at once; the first creates the mutex,
\* writes the defaults of every slot and creates the task.
LifeInit ==
    /\ api_pc = "idle"
    /\ ncalls < MaxLifeCalls
    /\ IF g_gripper_system_initialized
       THEN UNCHANGED <<g_gripper_mutex, g_gripper_system_initialized, slot_vars,
                        tick_vars>>
       ELSE /\ g_gripper_mutex' = "free"
            /\ g_gripper_status' = [i \in Slots |-> DefaultStatus(i, now)]
            /\ g_gripper_mapping' = [i \in Slots |-> DefaultMapping]
            /\ g_gripper_params' = [i \in Slots |-> DefaultParams]
            /\ g_gripper_pid' = [i \in Slots |-> DefaultPid]
            /\ g_gripper_slope' = [i \in Slots |-> DefaultSlope]
            /\ tick_pc' = "scan" /\ tick_servo_id' = 0
            /\ last_wake_time' = now /\ tick_local' = NoLocal
            /\ g_gripper_system_initialized' = TRUE
    /\ ncalls' = ncalls + 1
    /\ api_ret' = NoRet /\ bus' = NoBus
    /\ UNCHANGED <<legacy_mapping, servo_vars, now, api_pc, api_call, hist_vars>>

\* An operation called with g_gripper_mutex == nullptr: the checks before
\* xSemaphoreTake return false, and a call that passes them takes the null
\* handle and does not return.
LifeCallWithoutMutex ==
    /\ api_pc = "idle"
    /\ ncalls < MaxLifeCalls
    /\ g_gripper_mutex = "null"
    /\ \E c \in LifeCalls :
          IF ~ApiPrecheck(c, g_gripper_system_initialized)
          THEN /\ api_pc' = "idle" /\ api_call' = NoCall
               /\ api_ret' = Ret(c, FALSE, 0)
          ELSE /\ api_pc' \in NullTakeOutcomes /\ api_call' = c
               /\ api_ret' = NoRet
    /\ ncalls' = ncalls + 1
    /\ bus' = NoBus
    /\ UNCHANGED <<g_gripper_system_initialized, g_gripper_mutex, slot_vars,
                   legacy_mapping, servo_vars, now, tick_vars, hist_vars>>

LifeCall ==
    \/ g_gripper_mutex # "null" /\ ApiCallFrom(LifeCalls, MaxLifeCalls)
    \/ LifeCallWithoutMutex

NextLife ==
    \/ LifeDeinit
    \/ LifeInit
    \/ LifeCall
    \/ ApiBody

SpecLife == Init /\ [][NextLife]_vars

(***************************************************************************)
(* The slope planner on its own: the planner of slot 0 is initialised with *)
(* rates and real_first of the caller's choice and then driven directly by *)
(* Set_target, Set_now_real and Update_period; nothing else runs.          *)
(***************************************************************************)
\* The largest target, in hundredths.
MaxSlopeValue == 200
SlopeTargets == {-MaxSlopeValue, 0, MaxSlopeValue}
SlopeReals == {-MaxSlopeValue, 0, 170, 195}
SlopeRates == {0, 10, 30}

not_slope_vars == <<g_gripper_system_initialized, g_gripper_mutex, g_gripper_status,
                    g_gripper_mapping, g_gripper_params, g_gripper_pid,
                    legacy_mapping, servo_vars, now, tick_vars, api_vars, bus,
                    stopped, last_good>>

InitSlope ==
    /\ g_gripper_system_initialized = FALSE
    /\ g_gripper_mutex = "free"
    /\ g_gripper_status = [i \in Slots |-> DefaultStatus(i, 0)]
    /\ g_gripper_mapping = [i \in Slots |-> DefaultMapping]
    /\ g_gripper_params = [i \in Slots |-> DefaultParams]
    /\ g_gripper_pid = [i \in Slots |-> DefaultPid]
    /\ \E inc \in SlopeRates, dec \in SlopeRates, real_first \in BOOLEAN :
          g_gripper_slope = [i \in Slots |-> Slope_Init(inc, dec, real_first)]
    /\ unit_before = g_gripper_slope[0]
    /\ legacy_mapping = LegacyMappingInit
    /\ g_servo_initialized = FALSE
    /\ g_servo_connected = FALSE
    /\ now = 0
    /\ tick_pc = "scan"
    /\ tick_servo_id = 0
    /\ last_wake_time = 0
    /\ tick_local = NoLocal
    /\ api_pc = "idle"
    /\ api_call = NoCall
    /\ api_ret = NoRet
    /\ ncalls = 0
    /\ bus = NoBus
    /\ stopped = [i \in Slots |-> FALSE]
    /\ last_good = [i \in Slots |-> 0]

SlopeSetTarget ==
    /\ \E t \in SlopeTargets :
          g_gripper_slope' =
              [g_gripper_slope EXCEPT ![0] = Slope_Set_target(g_gripper_slope[0], t)]
    /\ UNCHANGED <<not_slope_vars, unit_before>>

SlopeSetNowReal ==
    /\ \E r \in SlopeReals :
          g_gripper_slope' =
              [g_gripper_slope EXCEPT ![0] = Slope_Set_now_real(g_gripper_slope[0], r)]
    /\ UNCHANGED <<not_slope_vars, unit_before>>

SlopeUpdate ==
    /\ g_gripper_slope' =
          [g_gripper_slope EXCEPT ![0] = Slope_Update_period(g_gripper_slope[0])]
    /\ unit_before' = g_gripper_slope[0]
    /\ UNCHANGED not_slope_vars

NextSlope ==
    \/ SlopeSetTarget
    \/ SlopeSetNowReal
    \/ SlopeUpdate

SpecSlope == InitSlope /\ [][NextSlope]_vars

(***************************************************************************)
(* The PID controller on its own: the controller of slot 0 is initialised  *)
(* with gains, limits, a period, a dead zone and the derivative mode,      *)
(* and then driven through Update_period and Reset with arguments from     *)
(* small sets.  unit_before holds the controller as it was before its last *)
(* Update_period or Reset.                                                 *)
(***************************************************************************)
\* Update_period is called at most MaxPidUpdates times between two resets.
MaxPidUpdates == 3
\* Values of kp, kd and kf (0 and 10.00) and of ki (0 and 2.00).
PidGains == {0, 10 * Scale}
PidKi == {0, 2 * Scale}
\* Integral limits (disabled and 5.00) and output limits (disabled and 10.00).
PidIntegralLimits == {0, 5 * Scale}
PidOutputLimits == {0, 10 * Scale}
\* Periods dt in milliseconds: the default (argument 0) and one second.
PidPeriods == {0, 1000}
\* Dead zones: disabled and 0.50.
PidDeadZones == {0, Scale \div 2}
\* Targets (0.40, 0.90, 10.00) and feedbacks (0, 10.00) of Update_period: the
\* error is zero, inside the dead zone, just outside it, or large.
PidTargets == {40, 90, 10 * Scale}
PidFeedbacks == {0, 10 * Scale}

not_pid_vars == <<g_gripper_system_initialized, g_gripper_mutex, g_gripper_status,
                  g_gripper_mapping, g_gripper_params, g_gripper_slope,
                  legacy_mapping, servo_vars, now, tick_vars, api_vars, bus,
                  stopped, last_good>>

InitPid ==
    /\ g_gripper_system_initialized = FALSE
    /\ g_gripper_mutex = "free"
    /\ g_gripper_status = [i \in Slots |-> DefaultStatus(i, 0)]
    /\ g_gripper_mapping = [i \in Slots |-> DefaultMapping]
    /\ g_gripper_params = [i \in Slots |-> DefaultParams]
    /\ \E kp \in PidGains, ki \in PidKi, kd \in PidGains, kf \in PidGains,
          integral_limit \in PidIntegralLimits, output_limit \in PidOutputLimits,
          dt \in PidPeriods, dead_zone \in PidDeadZones, d_first \in BOOLEAN :
          g_gripper_pid =
              [i \in Slots |->
                  PID_Set_derivative_first(
                      PID_Set_feedforward(
                          PID_Init_full(kp, ki, kd, 0, integral_limit, output_limit,
                                        dt, dead_zone, 0, 0, 0, FALSE),
                          kf),
                      d_first)]
    /\ g_gripper_slope = [i \in Slots |-> DefaultSlope]
    /\ unit_before = g_gripper_pid[0]
    /\ legacy_mapping = LegacyMappingInit
    /\ g_servo_initialized = FALSE
    /\ g_servo_connected = FALSE
    /\ now = 0
    /\ tick_pc = "scan"
    /\ tick_servo_id = 0
    /\ last_wake_time = 0
    /\ tick_local = NoLocal
    /\ api_pc = "idle"
    /\ api_call = NoCall
    /\ api_ret = NoRet
    /\ ncalls = 0
    /\ bus = NoBus
    /\ stopped = [i \in Slots |-> FALSE]
    /\ last_good = [i \in Slots |-> 0]

PidUpdate ==
    /\ g_gripper_pid[0].update_count < MaxPidUpdates
    /\ \E target \in PidTargets, feedback \in PidFeedbacks :
          g_gripper_pid' =
              [g_gripper_pid EXCEPT
                  ![0] = PID_Update_period(g_gripper_pid[0], target, feedback)]
    /\ unit_before' = g_gripper_pid[0]
    /\ UNCHANGED not_pid_vars

PidReset ==
    /\ g_gripper_pid' = [g_gripper_pid EXCEPT ![0] = PID_Reset(g_gripper_pid[0])]
    /\ unit_before' = g_gripper_pid[0]
    /\ UNCHANGED not_pid_vars

NextPid ==
    \/ PidUpdate
    \/ PidReset

SpecPid == InitPid /\ [][NextPid]_vars

(***************************************************************************)
(* The two conversions on their own: slot 0 takes a mapping through the    *)
(* validation of gripper_configure_mapping, and a percent is converted to  *)
(* the angle that is commanded and that angle, read back, to a percent.    *)
(* The status of slot 0 holds the three values: target_percent, the angle  *)
(* in hardware_angle and current_angle, the percent in current_percent.    *)
(***************************************************************************)
\* Mappings offered to gripper_configure_mapping: the whole range, the default
\* angles in both orders and directions, the smallest accepted ranges, the
\* mappings validation rejects, and mappings with a field that is not a number.
MapMappings ==
    {Mapping(0, 24000, 10, FALSE), Mapping(24000, 0, 10, TRUE),
     Mapping(16000, 9000, 500, FALSE), Mapping(16000, 9000, 500, TRUE),
     Mapping(9000, 16000, 500, FALSE), Mapping(9000, 16000, 500, TRUE),
     Mapping(12000, 12010, 10, FALSE), Mapping(12000, 7000, 5000, TRUE),
     Mapping(300, 0, 100, FALSE),
     Mapping(12000, 12000, NaN, FALSE), Mapping(16000, NaN, 500, TRUE)}
    \cup BadMappings
\* Percents converted (hundredths of a percent).
MapPercents == {0, 1, 50, 2500, 3333, 5000, 6667, 7500, 9999, PERCENT_MAX}

not_map_vars == <<g_gripper_system_initialized, g_gripper_mutex, g_gripper_params,
                  g_gripper_pid, g_gripper_slope, servo_vars, now, tick_vars,
                  api_vars, bus, hist_vars>>

MapConfigure ==
    /\ \E m \in MapMappings :
          /\ MappingValid(m)
          /\ g_gripper_mapping' = [g_gripper_mapping EXCEPT ![0] = ConfigureMappingBody(m)]
          /\ legacy_mapping' =
                servo_configure_gripper_mapping(legacy_mapping, m.closed_angle,
                                                m.open_angle, m.min_step)
    /\ UNCHANGED <<g_gripper_status, not_map_vars>>

MapRoundTrip ==
    /\ \E percent \in MapPercents :
          LET angle == gripper_percent_to_angle(percent, g_gripper_mapping[0])
              back == gripper_angle_to_percent(angle, g_gripper_mapping[0])
          IN  g_gripper_status' =
                  [g_gripper_status EXCEPT ![0].target_percent = percent,
                                            ![0].hardware_angle = angle,
                                            ![0].current_angle = angle,
                                            ![0].current_percent = back]
    /\ UNCHANGED <<g_gripper_mapping, legacy_mapping, not_map_vars>>

NextMap ==
    \/ MapConfigure
    \/ MapRoundTrip

SpecMap == Init /\ [][NextMap]_vars

(***************************************************************************)
(* Properties.                                                             *)
(***************************************************************************)
\* C1: after gripper_stop(id) has returned true, no tick sends a move command
\* for slot id until a later gripper_control_smooth(id, ...) has succeeded,
\* however the stop interleaves with the periodic task.
C1_NoMoveAfterStop ==
    bus.kind = "move" => ~stopped[bus.servo_id]

\* A stop of slot 0 has cut a movement short: the slot is stopped with its
\* movement unfinished, and the task has passed the execute step of that slot
\* without a move command.
C1_Witness ==
    /\ stopped[0]
    /\ g_gripper_status[0].movement_progress < 100 * Scale
    /\ g_gripper_status[0].movement_duration > 0
    /\ tick_pc = "finish" /\ tick_servo_id = 0
    /\ bus = NoBus

\* A step of gripper_control_task.
TickStep == <<tick_pc, tick_servo_id>>' # <<tick_pc, tick_servo_id>>

\* The step that ends the tick of a slot: completion check, stamp and release.
TickEndsSlot == tick_pc = "finish" /\ tick_pc' = "scan"

\* C2: when the position reads of a slot that is not IDLE have failed for longer
\* than feedback_timeout_ms since the last position the transport delivered
\* (or since start-up), the tick of the slot leaves its state ERROR and its
\* feedback_valid false.
C2_TimeoutSetsError ==
    [][(/\ TickEndsSlot
        /\ now - last_good[tick_servo_id]
              > g_gripper_params[tick_servo_id].feedback_timeout_ms)
       => (/\ g_gripper_status'[tick_servo_id].state = "ERROR"
           /\ ~g_gripper_status'[tick_servo_id].feedback_valid)]_vars

\* C3: a slot in ERROR is still in ERROR after every step of the control task.
C3_ErrorIsSticky ==
    [][\A i \in Slots :
          (g_gripper_status[i].state = "ERROR" /\ TickStep)
             => g_gripper_status'[i].state = "ERROR"]_vars

\* The three conditions of completion as the claim states them, at time t.
C4_Complete(status, slope, t) ==
    \/ Math_abs(status.target_percent - status.current_percent)
          < GRIPPER_CONTROL_PRECISION
    \/ U32Sub(t, status.movement_start_time) >= status.movement_duration
    \/ Math_abs(slope.out - status.target_percent) < GRIPPER_PERCENT_EPSILON

\* C4: the tick of a moving slot ends the movement exactly when the position
\* error is under the precision, or the elapsed time has reached
\* movement_duration, or the planner output is within epsilon of the target;
\* it then leaves is_moving false, state HOLDING and movement_progress 100, and
\* else leaves is_moving true.
C4_CompletionExactly ==
    [][(TickEndsSlot /\ g_gripper_status[tick_servo_id].is_moving)
       => LET before == g_gripper_status[tick_servo_id]
              after == g_gripper_status'[tick_servo_id]
          IN  IF C4_Complete(before, g_gripper_slope[tick_servo_id], now)
              THEN /\ ~after.is_moving
                   /\ after.state = "HOLDING"
                   /\ after.movement_progress = 100 * Scale
              ELSE after.is_moving]_vars

\* The steps in which the control task is inside gripper_update_single.
TickInSlot == tick_pc \in {"update", "execute", "finish"}

\* C6: every step in which the control task or an API call reads or writes a
\* field of a slot is taken while that task holds the mutex, and
\* gripper_get_status returns no snapshot taken in the middle of a tick.
C6_LockDiscipline ==
    /\ [][(TickStep /\ tick_pc = "scan" /\ tick_servo_id < MAX_GRIPPERS)
             => g_gripper_mutex = "tick"]_vars
    /\ [](TickInSlot => g_gripper_mutex = "tick")
    /\ [](api_pc = "body" => g_gripper_mutex = "api")
    /\ []((api_ret.call.op = "get_status" /\ api_ret.ok) => ~TickInSlot)

\* C7: a call made while the mutex is held returns false and changes no slot and
\* not the mutex; a tick that reaches a slot that is not IDLE while the mutex is
\* held leaves every slot as it is, makes no transport call and goes on to the
\* next slot.
C7_LockTimeout ==
    /\ [][(ncalls' # ncalls /\ g_gripper_mutex # "free")
             => /\ api_ret'.call.op # "none" /\ ~api_ret'.ok
                /\ api_pc' = "idle"
                /\ UNCHANGED <<slot_vars, g_gripper_mutex, legacy_mapping>>]_vars
    /\ [][(/\ TickStep /\ tick_pc = "scan" /\ tick_servo_id < MAX_GRIPPERS
           /\ g_gripper_status[tick_servo_id].state # "IDLE"
           /\ g_gripper_mutex # "free")
             => /\ UNCHANGED <<slot_vars, g_gripper_mutex, now>>
                /\ bus' = NoBus
                /\ tick_pc' = "scan" /\ tick_servo_id' = tick_servo_id + 1]_vars

\* The task has skipped slot 0 in this cycle: the slot was processed in the
\* previous cycle, the task is past it in this one without having stamped it,
\* and the API task holds the mutex.
C7_Witness ==
    /\ api_pc = "body"
    /\ tick_pc = "scan" /\ tick_servo_id = 1
    /\ now = 2 * ControlPeriod
    /\ g_gripper_status[0].state # "IDLE"
    /\ g_gripper_status[0].last_update_time = ControlPeriod

\* The read of this tick is the slot's only failed one: the read of the cycle
\* before delivered a position.
C8_SingleFailedRead(i) ==
    last_good[i] > 0 /\ last_good[i] = now - ControlPeriod

\* C8: a tick of a slot in which one position read fails, after a read that
\* succeeded, does not put the slot in ERROR and does not change its is_moving
\* or target_percent, unless the movement ends by its elapsed time or by the
\* planner's output or was commanded after the last position read; one failed
\* move command changes no slot; and the task goes on to the next slot.
C8_FailureTolerated ==
    /\ [][(tick_pc = "update" /\ TickStep /\ ~bus'.ok
           /\ C8_SingleFailedRead(tick_servo_id))
             => LET before == g_gripper_status[tick_servo_id]
                    after == g_gripper_status'[tick_servo_id]
                IN  /\ after.state = "ERROR" => before.state = "ERROR"
                    /\ after.is_moving = before.is_moving
                    /\ after.target_percent = before.target_percent]_vars
    /\ [][(tick_pc = "execute" /\ TickStep /\ bus'.kind = "move" /\ ~bus'.ok)
             => UNCHANGED slot_vars]_vars
    /\ [][(TickEndsSlot /\ C8_SingleFailedRead(tick_servo_id))
             => LET before == g_gripper_status[tick_servo_id]
                    after == g_gripper_status'[tick_servo_id]
                IN  /\ after.state = "ERROR" => before.state = "ERROR"
                    /\ after.target_percent = before.target_percent
                    /\ \/ after.is_moving = before.is_moving
                       \/ before.movement_progress >= 100 * Scale
                       \/ Math_abs(g_gripper_slope[tick_servo_id].out
                                   - before.target_percent) < GRIPPER_PERCENT_EPSILON
                       \/ before.movement_start_time >= last_good[tick_servo_id]
                    /\ tick_servo_id' = tick_servo_id + 1]_vars

\* C5: in the end-to-end scenario the state of slot 0 goes from IDLE to MOVING
\* and from MOVING to HOLDING and makes no other change; movement_progress is
\* 100 whenever the state is HOLDING; and once a tick has read the settled
\* feedback the slot is HOLDING with current_percent within
\* GRIPPER_CONTROL_PRECISION of target_percent.
C5_EndToEnd ==
    /\ [][LET a == g_gripper_status[0].state
              b == g_gripper_status'[0].state
          IN  \/ a = b
              \/ a = "IDLE" /\ b = "MOVING"
              \/ a = "MOVING" /\ b = "HOLDING"]_vars
    /\ [](g_gripper_status[0].state = "HOLDING"
             => g_gripper_status[0].movement_progress = 100 * Scale)
    /\ []((g_gripper_status[0].state # "IDLE"
           /\ g_gripper_status[0].last_update_time >= E2ESettled)
             => /\ g_gripper_status[0].state = "HOLDING"
                /\ Math_abs(g_gripper_status[0].target_percent
                            - g_gripper_status[0].current_percent)
                      < GRIPPER_CONTROL_PRECISION)

\* The command of the scenario (100 percent in 2000 ms, CLOSED_LOOP) has ended
\* in HOLDING before its time was up, on the settled feedback.
C5_Witness ==
    /\ g_gripper_status[0].state = "HOLDING"
    /\ g_gripper_status[0].mode = "CLOSED_LOOP"
    /\ g_gripper_status[0].target_percent = PERCENT_MAX
    /\ g_gripper_status[0].movement_duration = 2000
    /\ g_gripper_status[0].movement_start_time = 0
    /\ g_gripper_status[0].current_percent = PERCENT_MAX
    /\ g_gripper_status[0].last_update_time >= E2ESettled

\* The call made in this step, taken or returned.
CallMade == IF api_pc' = "body" THEN api_call' ELSE api_ret'.call

\* C9: a call of any public operation with servo_id >= MAX_GRIPPERS returns
\* false in the step it is made, never runs a body, and leaves the status,
\* mapping, control parameters, planner and PID of every slot unchanged.
C9_BadIdRejected ==
    /\ [](api_pc = "body" => api_call.servo_id < MAX_GRIPPERS)
    /\ [][(ncalls' # ncalls /\ CallMade.servo_id >= MAX_GRIPPERS)
             => /\ api_pc' = "idle"
                /\ api_ret'.call.op \in Ops /\ ~api_ret'.ok
                /\ UNCHANGED slot_vars]_vars

\* A stop with a servo id outside the table has returned false while slot 0 is
\* moving.
C9_Witness ==
    /\ api_ret.call.op = "stop"
    /\ api_ret.call.servo_id = MAX_GRIPPERS
    /\ ~api_ret.ok
    /\ g_gripper_status[0].is_moving

\* The ranges of a mapping as the claim states them.
C10_InRange(m) ==
    /\ 0 <= m.closed_angle /\ m.closed_angle <= ANGLE_MAX
    /\ 0 <= m.open_angle /\ m.open_angle <= ANGLE_MAX
    /\ MIN_STEP_MIN <= m.min_step /\ m.min_step <= MIN_STEP_MAX
    /\ Math_abs(m.closed_angle - m.open_angle) >= m.min_step

\* C10: gripper_configure_mapping with a valid id and a mapping, made while the
\* mutex is free, is accepted exactly when the angles are in [0, 240], min_step
\* is in [0.1, 50] and the angles differ by at least min_step; when it returns
\* false the mappings are unchanged; when it returns true the slot's mapping is
\* the argument, marked calibrated, written while the caller holds the mutex.
C10_MappingValidation ==
    /\ [][(/\ ncalls' # ncalls /\ CallMade.op = "configure_mapping"
           /\ CallMade.servo_id < MAX_GRIPPERS /\ ~CallMade.null
           /\ g_gripper_mutex = "free")
             => (api_pc' = "body" <=> C10_InRange(CallMade.mapping))]_vars
    /\ [][(api_ret'.call.op = "configure_mapping" /\ ~api_ret'.ok)
             => UNCHANGED g_gripper_mapping]_vars
    /\ [][(api_ret'.call.op = "configure_mapping" /\ api_ret'.ok)
             => /\ g_gripper_mutex = "api"
                /\ g_gripper_mapping' =
                      [g_gripper_mapping EXCEPT ![api_ret'.call.servo_id] =
                          [api_ret'.call.mapping EXCEPT !.is_calibrated = TRUE]]]_vars

\* The step in which the body of the call in progress runs and returns true.
BodyOf(op) == api_pc = "body" /\ api_pc' = "idle" /\ api_call.op = op

\* C11: gripper_control_smooth with a valid id and target_percent below 0 or
\* above 100 returns false in the step it is made and leaves the status of
\* every slot (target_percent, is_moving, state, movement_progress,
\* movement_start_time, movement_duration) and every planner unchanged.
C11_BadPercentRejected ==
    [][(/\ ncalls' # ncalls /\ CallMade.op = "control_smooth"
        /\ CallMade.servo_id < MAX_GRIPPERS
        /\ (CallMade.target_percent < 0 \/ CallMade.target_percent > PERCENT_MAX))
          => /\ api_pc' = "idle"
             /\ api_ret'.call.op = "control_smooth" /\ ~api_ret'.ok
             /\ UNCHANGED <<g_gripper_status, g_gripper_slope>>]_vars

\* A command to 150 percent has returned false while slot 0 is moving to the
\* target of an earlier command.
C11_Witness ==
    /\ api_ret.call.op = "control_smooth"
    /\ api_ret.call.servo_id = 0
    /\ api_ret.call.target_percent = 15000
    /\ ~api_ret.ok
    /\ g_gripper_status[0].is_moving
    /\ g_gripper_status[0].target_percent = PERCENT_MAX

\* C12: the body of a successful gripper_control_smooth(id, p, t) runs in one
\* step while the caller holds the mutex and leaves target_percent = p,
\* is_moving, state MOVING, movement_progress 0, the planner's target p, and
\* movement_duration t when t > 0 and else the whole milliseconds of
\* |p - current_percent| / max_speed seconds.
C12_ControlSmoothSets ==
    [][BodyOf("control_smooth")
          => LET i == api_call.servo_id
                 p == api_call.target_percent
                 t == api_call.time_ms
                 before == g_gripper_status[i]
                 after == g_gripper_status'[i]
                 dist == Math_abs(p - before.current_percent) * 1000
                 speed == g_gripper_mapping[i].max_speed
             IN  /\ g_gripper_mutex = "api"
                 /\ api_ret'.ok
                 /\ after.target_percent = p
                 /\ after.is_moving
                 /\ after.state = "MOVING"
                 /\ after.movement_progress = 0
                 /\ g_gripper_slope'[i].target = p
                 /\ IF t > 0 THEN after.movement_duration = t
                    ELSE /\ after.movement_duration * speed <= dist
                         /\ dist < (after.movement_duration + 1) * speed]_vars

\* A command with time 0 has returned true during a movement: the slot is
\* MOVING with the duration derived from the distance, 100 percent at 20
\* percent per second.
C12_Witness ==
    /\ api_ret.call.op = "control_smooth" /\ api_ret.ok
    /\ api_ret.call.time_ms = 0
    /\ api_ret.call.target_percent = 0
    /\ g_gripper_status[0].current_percent = PERCENT_MAX
    /\ g_gripper_status[0].state = "MOVING"
    /\ g_gripper_status[0].movement_duration = 5000
    /\ g_gripper_slope[0].target = 0

\* The running state of a PID controller is all zero, as after Reset().
PidRunningStateZero(pid) ==
    /\ pid.target = 0 /\ pid.feedback = 0 /\ pid.output = 0 /\ pid.error = 0
    /\ pid.integral_error = 0
    /\ pid.pre_feedback = 0 /\ pid.pre_target = 0 /\ pid.pre_error = 0
    /\ pid.pre_output = 0
    /\ pid.p_out = 0 /\ pid.i_out = 0 /\ pid.d_out = 0 /\ pid.f_out = 0

C15_MoveInRange ==
    bus.kind = "move"
       => /\ bus.angle # NaN
          /\ 0 <= bus.angle /\ bus.angle <= ANGLE_MAX
          /\ SERVO_TIME_MIN <= bus.time_ms /\ bus.time_ms <= SERVO_TIME_MAX

\* The planner under test and what the claims about it speak of: the rate of
\* the branch Update_period takes, the larger rate, the remaining distance, and
\* the real value lying between the planning cursor and the target.
Planner == g_gripper_slope[0]

SlopeActiveRate(s) ==
    IF s.now_planning > 0 /\ s.target < s.now_planning THEN s.decrease_value
    ELSE IF s.now_planning < 0 /\ s.target > s.now_planning THEN s.decrease_value
    ELSE s.increase_value

SlopeMaxRate(s) ==
    IF s.increase_value > s.decrease_value THEN s.increase_value ELSE s.decrease_value

SlopeSnaps(s) == Math_abs(s.now_planning - s.target) <= SlopeActiveRate(s)

RealBetween(s) ==
    \/ s.now_planning <= s.now_real /\ s.now_real <= s.target
    \/ s.target <= s.now_real /\ s.now_real <= s.now_planning

\* C16 as stated: over every Update_period the output changes by at most the
\* larger rate, unless the planning cursor is within the active rate of the
\* target, with real_first on or off and for every real value.
C16_StepBoundFromOutput ==
    [][SlopeUpdate
          => \/ Math_abs(Planner'.out - Planner.out) <= SlopeMaxRate(Planner)
             \/ SlopeSnaps(Planner)]_vars

\* C16, amended: over every Update_period the output is within the larger rate
\* of the point the step starts from, which is the real value when real_first
\* is on and the real value lies between planning cursor and target, and the
\* previous output otherwise, unless the planning cursor is within the active
\* rate of the target.
C16_StepBoundFromAnchor ==
    [][SlopeUpdate
          => LET base == IF Planner.real_first /\ RealBetween(Planner)
                         THEN Planner.now_real ELSE Planner.out
             IN  \/ Math_abs(Planner'.out - base) <= SlopeMaxRate(Planner)
                 \/ SlopeSnaps(Planner)]_vars

\* An Update_period with real_first on has taken the output from 2.00 to -0.10
\* at rates of 0.10: the real value 0 lay between cursor and target -2.00.
C16_Witness ==
    /\ unit_before.real_first
    /\ unit_before.increase_value = 10 /\ unit_before.decrease_value = 10
    /\ unit_before.out = MaxSlopeValue /\ unit_before.now_planning = MaxSlopeValue
    /\ unit_before.target = -MaxSlopeValue
    /\ unit_before.now_real = 0
    /\ Planner.out = -10
    /\ Planner.target = -MaxSlopeValue /\ Planner.now_real = 0

\* Ticks still needed at the active rate: ceil(|target - planning| / rate).
SlopeTicksLeft(s) ==
    LET d == Math_abs(s.target - s.now_planning)
        r == SlopeActiveRate(s)
    IN  IF d = 0 THEN 0 ELSE (d + r - 1) \div r

SlopeOneRate(s) ==
    \/ s.increase_value = s.decrease_value
    \/ ~(s.now_planning > 0 /\ s.target < 0) /\ ~(s.now_planning < 0 /\ s.target > 0)

SlopeAnchoredStep(s) ==
    IF s.target > s.now_planning THEN s.now_real + SlopeActiveRate(s)
    ELSE s.now_real - SlopeActiveRate(s)

\* C18 as stated: with real_first on and the real value between planning
\* cursor and target (inclusive), Update_period leaves the output at the real
\* value plus or minus the active rate, and the planning cursor at the output.
C18_ReanchorsAndSteps ==
    [][(SlopeUpdate /\ Planner.real_first /\ RealBetween(Planner))
          => /\ Planner'.out = SlopeAnchoredStep(Planner)
             /\ Planner'.now_planning = Planner'.out]_vars

\* C18, amended: with real_first on and the real value between planning cursor
\* and target (inclusive), Update_period leaves the output at the real value
\* plus or minus the active rate when the cursor is farther than the active
\* rate from the target, at the target when the cursor is within the active
\* rate of it without being on it, and at the real value when the cursor is on
\* the target; the planning cursor is left at the output.
C18_ReanchorsAndStepsOrSnaps ==
    [][(SlopeUpdate /\ Planner.real_first /\ RealBetween(Planner))
          => /\ Planner'.out =
                   IF Planner.now_planning = Planner.target THEN Planner.now_real
                   ELSE IF SlopeSnaps(Planner) THEN Planner.target
                   ELSE SlopeAnchoredStep(Planner)
             /\ Planner'.now_planning = Planner'.out]_vars

\* The example: target 2.00, planning 1.50, real 1.70, increase rate 0.10; one
\* Update_period has given output 1.80 and planning 1.80.
C18_Witness ==
    /\ unit_before.real_first
    /\ unit_before.target = 200
    /\ unit_before.now_planning = 150
    /\ unit_before.now_real = 170
    /\ unit_before.increase_value = 10
    /\ Planner.out = 180
    /\ Planner.now_planning = 180

\* C19: after every Update_period the output lies between the planning cursor
\* the call started from and the target, both included.
C19_NoOvershoot ==
    [][SlopeUpdate
          => \/ Planner.now_planning <= Planner'.out /\ Planner'.out <= Planner.target
             \/ Planner.target <= Planner'.out /\ Planner'.out <= Planner.now_planning]_vars

\* C20: with the dead zone enabled, an Update_period whose target and feedback
\* differ by at most the dead zone leaves p_out, i_out and d_out at zero,
\* whatever the integral and the previous error were before the call; the
\* output is then the feedforward term alone.
C20_DeadZoneZeroesTerms ==
    [][PidUpdate =>
          LET pid == g_gripper_pid'[0]
          IN  (/\ pid.dead_zone > 0
               /\ Math_abs(pid.pre_target - pid.pre_feedback) <= pid.dead_zone)
              => /\ pid.p_out = 0
                 /\ pid.i_out = 0
                 /\ pid.d_out = 0
                 /\ pid.output = pid.f_out]_vars

Pid == g_gripper_pid[0]

PidAtLimit(pid) == pid.enable_output_limit /\ Math_abs(pid.output) >= pid.output_limit

\* C21 as stated: after every Update_period with output limiting enabled the
\* state is SATURATED whenever |output| is at output_limit and STOP whenever the
\* error is 0.
C21_SaturatedWheneverAtLimit ==
    (Pid.update_count > 0 /\ Pid.enable_output_limit) =>
        /\ PidAtLimit(Pid) => Pid.state = "SATURATED"
        /\ Pid.error = 0 => Pid.state = "STOP"

\* C21: after every Update_period the state is a function of |error|, dead_zone
\* and whether |output| is at the limit, taken in this order: STOP when the
\* error is 0; otherwise DEAD_ZONE when |error| is within the dead zone;
\* otherwise SATURATED when output limiting is enabled and |output| is at
\* output_limit; otherwise NORMAL.  SATURATED is forced by an output at the
\* limit only when |error| is above the dead zone.
C21_StateClassification ==
    Pid.update_count > 0 =>
        LET abs_error == Math_abs(Pid.error)
        IN  /\ Pid.state = "STOP" <=> abs_error = 0
            /\ Pid.state = "DEAD_ZONE" <=> (0 < abs_error /\ abs_error <= Pid.dead_zone)
            /\ Pid.state = "SATURATED" <=>
                   (abs_error > Pid.dead_zone /\ abs_error > 0 /\ PidAtLimit(Pid))
            /\ Pid.state = "NORMAL" <=>
                   (abs_error > Pid.dead_zone /\ abs_error > 0 /\ ~PidAtLimit(Pid))

\* An output driven to the limit 10.00
\* with an error above the dead zone.
C21_Witness ==
    /\ Pid.update_count > 0
    /\ Pid.enable_output_limit
    /\ Pid.dead_zone > 0
    /\ Pid.output = Pid.output_limit
    /\ Math_abs(Pid.error) > Pid.dead_zone
    /\ Pid.state = "SATURATED"

\* integral_limit / ki in the units of integral_error.
PidMaxIntegral(pid) == RDiv(pid.integral_limit * 1000 * Scale, pid.ki)

\* C22: with integral limiting enabled and ki > 0, integral_error is within
\* plus or minus integral_limit / ki after every Update_period call.
C22_IntegralWithinLimit ==
    (Pid.update_count > 0 /\ Pid.enable_integral_limit /\ Pid.ki > 0) =>
        Math_abs(Pid.integral_error) <= PidMaxIntegral(Pid)

MapTolerance(mapping) ==
    LET range == Math_abs(mapping.open_angle - mapping.closed_angle)
    IN  IF range = 0 THEN 1 ELSE (50 * Scale) \div range + 1

\* C24: for every mapping accepted by gripper_configure_mapping and every
\* percent in [0, 100], converting the percent to an angle and the angle back
\* gives the same percent within tolerance, with reverse_direction off and on.
C24_RoundTrip ==
    [][MapRoundTrip =>
          LET st == g_gripper_status'[0]
          IN  /\ st.current_percent # NaN
              /\ Math_abs(st.current_percent - st.target_percent)
                     <= MapTolerance(g_gripper_mapping[0])]_vars

\* The mapping of slot 0 has numbers in all its fields.
MapFinite == /\ g_gripper_mapping[0].closed_angle # NaN
             /\ g_gripper_mapping[0].open_angle # NaN
             /\ g_gripper_mapping[0].min_step # NaN

\* The round trip holds for the accepted mappings whose fields are all numbers.
RoundTripFinite ==
    [][(MapRoundTrip /\ MapFinite) =>
          LET st == g_gripper_status'[0]
          IN  /\ st.current_percent # NaN
              /\ Math_abs(st.current_percent - st.target_percent)
                     <= MapTolerance(g_gripper_mapping[0])]_vars

\* C25: a tick whose position read fails on the transport keeps current_angle,
\* current_percent and hardware_angle of the slot, does not set feedback_valid
\* and does not stamp last_feedback_time.
C25_FailedReadKeepsFeedback ==
    [][(tick_pc = "update" /\ TickStep /\ ~bus'.ok)
         => LET before == g_gripper_status[tick_servo_id]
                after == g_gripper_status'[tick_servo_id]
            IN  /\ after.current_angle = before.current_angle
                /\ after.current_percent = before.current_percent
                /\ after.hardware_angle = before.hardware_angle
                /\ after.feedback_valid => before.feedback_valid
                /\ after.last_feedback_time = before.last_feedback_time]_vars

\* The operation recorded in bus went out on the transport: the servo
\* controller is initialised and connected and, for a move command, the checks
\* of servo_control_position before the bus passed.
TransportCalled ==
    /\ bus.kind # "none"
    /\ g_servo_initialized
    /\ g_servo_connected
    /\ bus.kind = "move" =>
          /\ ~(FLt(bus.angle, 0) \/ FGt(bus.angle, ANGLE_MAX))
          /\ ~(bus.time_ms < SERVO_TIME_MIN \/ bus.time_ms > SERVO_TIME_MAX)

\* C26: while g_gripper_mutex is held, by the tick or by an API call, the only
\* operation on the transport is the read of the hardware position: no step
\* taken with the mutex held sends anything else on the bus.
C26_OnlyReadUnderLock ==
    [][(g_gripper_mutex # "free" /\ TransportCalled') => bus'.kind = "read"]_vars

\* The move command of a moving CLOSED_LOOP slot whose PID limits its output.
ClosedLoopMoveSent ==
    /\ tick_pc = "finish"
    /\ bus.kind = "move"
    /\ g_gripper_status[tick_servo_id].mode = "CLOSED_LOOP"
    /\ g_gripper_pid[tick_servo_id].enable_output_limit

DurationElapsed(i) ==
    /\ g_gripper_status[i].movement_duration > 0
    /\ U32Sub(now, g_gripper_status[i].movement_start_time)
          >= g_gripper_status[i].movement_duration

ProgressNeverDecreases ==
    [][~BodyOf("control_smooth") =>
          \A i \in Slots : g_gripper_status'[i].movement_progress
                              >= g_gripper_status[i].movement_progress]_vars

ProgressInRange ==
    \A i \in Slots : /\ g_gripper_status[i].movement_progress >= 0
                     /\ g_gripper_status[i].movement_progress <= 100 * Scale

SlotOf(j) == <<g_gripper_status[j], g_gripper_mapping[j], g_gripper_params[j],
               g_gripper_slope[j], g_gripper_pid[j]>>

\* C30: the body of an API call on slot i and every step of the tick of slot i
\* leave the status, mapping, control parameters, planner and PID of every
\* other slot unchanged; the steps that run neither change no slot at all.
C30_SlotsIsolated ==
    /\ [][(api_pc = "body" /\ api_pc' = "idle")
            => \A j \in Slots \ {api_call.servo_id} : SlotOf(j)' = SlotOf(j)]_vars
    /\ [][(TickStep /\ tick_pc \in {"update", "execute", "finish"})
            => \A j \in Slots \ {tick_servo_id} : SlotOf(j)' = SlotOf(j)]_vars
    /\ [][(/\ ~(api_pc = "body" /\ api_pc' = "idle")
           /\ ~(TickStep /\ tick_pc \in {"update", "execute", "finish"}))
            => \A j \in Slots : SlotOf(j)' = SlotOf(j)]_vars

\* Slot 0 is moving with its planner under way, slot 1 has been stopped and
\* ticked, and slot 2 is as it was initialised.
C30_Witness ==
    /\ g_gripper_status[0].state = "MOVING"
    /\ g_gripper_slope[0].out > 0
    /\ g_gripper_slope[0].target = PERCENT_MAX
    /\ g_gripper_status[1].state = "HOLDING"
    /\ g_gripper_status[1].last_update_time > 0
    /\ g_gripper_slope[1].target = 0
    /\ SlotOf(2) = <<DefaultStatus(2, 0), DefaultMapping, DefaultParams,
                     DefaultSlope, DefaultPid>>

\* C31: the periodic task works on slots that are not IDLE only: it is inside
\* gripper_update_single only for a slot that is not IDLE, every operation it
\* puts on the transport is for such a slot, and no step of the task changes
\* the status, planner or PID of a slot that is IDLE.
C31_IdleSlotsSkipped ==
    /\ [](tick_pc \in {"update", "execute", "finish"}
             => g_gripper_status[tick_servo_id].state # "IDLE")
    /\ [][(TickStep /\ bus'.kind # "none")
             => g_gripper_status[bus'.servo_id].state # "IDLE"]_vars
    /\ [][TickStep => \A i \in Slots :
                         g_gripper_status[i].state = "IDLE" => SlotOf(i)' = SlotOf(i)]_vars

\* The loop has worked on slot 0, stamped it in this cycle, and passed slot 1,
\* which is IDLE and as it was initialised.
C31_Witness ==
    /\ tick_pc = "scan"
    /\ tick_servo_id = 2
    /\ now > 0
    /\ g_gripper_status[0].state # "IDLE"
    /\ g_gripper_status[0].last_update_time = now
    /\ g_gripper_status[1] = DefaultStatus(1, 0)

\* C32: after an Update_period with the dead zone enabled and a nonzero
\* |target - feedback| inside the dead zone, the state is DEAD_ZONE.
C32_DeadZoneState ==
    (/\ Pid.update_count > 0
     /\ Pid.dead_zone > 0
     /\ Pid.pre_target # Pid.pre_feedback
     /\ Math_abs(Pid.pre_target - Pid.pre_feedback) <= Pid.dead_zone)
        => Pid.state = "DEAD_ZONE"

\* The running state and the configuration of a PID controller record.
PidRunning(pid) ==
    <<pid.target, pid.feedback, pid.output, pid.error, pid.integral_error,
      pid.pre_feedback, pid.pre_target, pid.pre_error, pid.pre_output,
      pid.p_out, pid.i_out, pid.d_out, pid.f_out, pid.max_error,
      pid.update_count>>

PidConfiguration(pid) ==
    <<pid.kp, pid.ki, pid.kd, pid.kf, pid.dt, pid.dead_zone,
      pid.output_limit, pid.enable_output_limit,
      pid.integral_limit, pid.enable_integral_limit,
      pid.i_variable_speed_a, pid.i_variable_speed_b, pid.i_separate_threshold,
      pid.enable_d_first>>

\* C33: Reset zeroes the whole running state, sets the state STOP and leaves
\* every configuration value as it was before the call.  (update_count is 0
\* only initially, where unit_before is the controller itself, and after Reset,
\* where unit_before is the controller before the call.)
C33_ResetKeepsConfiguration ==
    Pid.update_count = 0 =>
        /\ PidRunning(Pid) = [k \in 1..15 |-> 0]
        /\ Pid.state = "STOP"
        /\ PidConfiguration(Pid) = PidConfiguration(unit_before)

C33_Witness ==
    /\ Pid.update_count = 0
    /\ unit_before.update_count = MaxPidUpdates
    /\ unit_before.integral_error # 0
    /\ unit_before.output # 0
    /\ unit_before.state = "SATURATED"
    /\ unit_before.dead_zone > 0
    /\ unit_before.enable_integral_limit
    /\ unit_before.enable_d_first
    /\ unit_before.dt # PID_DEFAULT_DT

\* C34: for every percent and stored mapping, gripper_percent_to_angle returns
\* an angle in [0, 240] and gripper_angle_to_percent a percent in [0, 100], and
\* the percent is 0 when |open_angle - closed_angle| < 0.1.
C34_ConversionsClamped ==
    [][MapRoundTrip =>
          LET st == g_gripper_status'[0]
              mapping == g_gripper_mapping[0]
          IN  /\ st.current_angle # NaN
              /\ 0 <= st.current_angle /\ st.current_angle <= ANGLE_MAX
              /\ st.current_percent # NaN
              /\ 0 <= st.current_percent /\ st.current_percent <= PERCENT_MAX
              /\ (/\ mapping.open_angle # NaN /\ mapping.closed_angle # NaN
                  /\ Math_abs(mapping.open_angle - mapping.closed_angle) < RANGE_GUARD)
                    => st.current_percent = 0]_vars

\* The conversions are clamped for the stored mappings whose angles are numbers.
ConversionsClampedFinite ==
    [][(MapRoundTrip /\ MapFinite) =>
          LET st == g_gripper_status'[0]
              mapping == g_gripper_mapping[0]
          IN  /\ 0 <= st.current_angle /\ st.current_angle <= ANGLE_MAX
              /\ 0 <= st.current_percent /\ st.current_percent <= PERCENT_MAX
              /\ Math_abs(mapping.open_angle - mapping.closed_angle) < RANGE_GUARD
                    => st.current_percent = 0]_vars

\* C35: whenever is_moving of a slot is true, the target of the slot's planner
\* equals status.target_percent.
C35_PlannerTargetIsCommandedTarget ==
    \A i \in Slots :
        g_gripper_status[i].is_moving
            => g_gripper_slope[i].target = g_gripper_status[i].target_percent

\* The move command of a moving OPEN_LOOP slot has reached the transport.
OpenLoopMoveSent ==
    /\ tick_pc = "finish"
    /\ bus.kind = "move"
    /\ TransportCalled
    /\ g_gripper_status[tick_servo_id].mode = "OPEN_LOOP"

\* C36: in OPEN_LOOP mode the percent commanded in a tick (the planner's output,
\* as gripper_percent_to_angle limits it) lies between the current_percent
\* measured in that tick and target_percent, both included.
C36_CommandBetweenCurrentAndTarget ==
    OpenLoopMoveSent =>
        LET st == g_gripper_status[tick_servo_id]
            planned_percent ==
                Math_constrain_value(g_gripper_slope[tick_servo_id].out, 0, PERCENT_MAX)
        IN  \/ /\ st.current_percent <= planned_percent
               /\ planned_percent <= st.target_percent
            \/ /\ st.target_percent <= planned_percent
               /\ planned_percent <= st.current_percent

\* C37: in every reachable state, a slot in state MOVING has is_moving true and
\* a slot in state IDLE or HOLDING has is_moving false.
C37_StateAgreesWithIsMoving ==
    \A i \in Slots :
        /\ g_gripper_status[i].state = "MOVING" => g_gripper_status[i].is_moving
        /\ g_gripper_status[i].state \in {"IDLE", "HOLDING"}
              => ~g_gripper_status[i].is_moving

\* Slot 0 is HOLDING because a tick found its movement complete, slot 1 is
\* HOLDING because it was stopped, and slot 2 was never commanded.
C37_Witness ==
    /\ g_gripper_status[0].state = "HOLDING"
    /\ ~g_gripper_status[0].is_moving
    /\ ~stopped[0]
    /\ g_gripper_status[0].movement_progress = 100 * Scale
    /\ g_gripper_status[1].state = "HOLDING"
    /\ ~g_gripper_status[1].is_moving
    /\ g_gripper_status[2].state = "IDLE"
    /\ ~g_gripper_status[2].is_moving

\* A slot is MOVING and has been through a tick that did not complete it.
MovingAfterTick ==
    /\ g_gripper_status[0].state = "MOVING"
    /\ g_gripper_status[0].is_moving
    /\ g_gripper_status[0].last_update_time > 0

\* The time of the movement of slot i has run out at the model's clock.
MovementTimeOver(i) ==
    /\ g_gripper_status[i].movement_duration > 0
    /\ U32Sub(now, g_gripper_status[i].movement_start_time)
           >= g_gripper_status[i].movement_duration

\* C38: after gripper_control_smooth with time_ms > 0 has succeeded, with the
\* task running and taking the mutex and no new target set, is_moving of the
\* slot becomes false, and the tick of the slot that ends with the time of the
\* movement run out leaves is_moving false, whatever the feedback and the mode.
\* (Slot 0 is the slot commanded; the movements are those whose time ends
\* within the time of the model.)
C38_MovementTerminates ==
    /\ (/\ g_gripper_status[0].is_moving
        /\ g_gripper_status[0].movement_duration > 0
        /\ g_gripper_status[0].movement_start_time
               + g_gripper_status[0].movement_duration <= MaxLiveTime)
           ~> ~g_gripper_status[0].is_moving
    /\ [][(TickEndsSlot /\ MovementTimeOver(tick_servo_id))
              => ~g_gripper_status'[tick_servo_id].is_moving]_vars

\* A tick has ended the movement of slot 0 by its time alone: the position is
\* away from the target and the planner has not reached it.
C38_Witness ==
    /\ ~g_gripper_status[0].is_moving
    /\ g_gripper_status[0].state = "HOLDING"
    /\ MovementTimeOver(0)
    /\ g_gripper_status[0].movement_progress = 100 * Scale
    /\ ~FLt(FAbsDiff(g_gripper_status[0].target_percent,
                     g_gripper_status[0].current_percent),
            GRIPPER_CONTROL_PRECISION)
    /\ Math_abs(g_gripper_slope[0].out - g_gripper_status[0].target_percent)
           >= GRIPPER_PERCENT_EPSILON

\* C39: every API call and every tick of a slot that has taken g_gripper_mutex
\* has released it when it returns: the caller holds the mutex only inside a
\* call, the task only inside gripper_update_single.
C39_MutexReleased ==
    /\ g_gripper_mutex = "api" => api_pc = "body"
    /\ g_gripper_mutex = "tick" => tick_pc \in {"update", "execute", "finish"}

\* A call that took the mutex has just returned true and the task has been
\* through a tick of slot 0 and is between two slots: the mutex is free.
C39_Witness ==
    /\ api_pc = "idle" /\ api_ret.ok /\ api_ret.call.op = "get_status"
    /\ tick_pc = "scan" /\ tick_servo_id = 1
    /\ g_gripper_status[0].state # "IDLE"
    /\ g_gripper_slope[0].out # 0
    /\ g_gripper_mutex = "free"

\* C40: an operation of the public API called while the controller is not
\* initialised returns false without reaching xSemaphoreTake and without
\* changing a slot.
C40_UninitialisedCallsFail ==
    [][(LifeCall /\ ~g_gripper_system_initialized)
          => /\ api_pc' = "idle"
             /\ api_ret'.call.op # "none" /\ ~api_ret'.ok
             /\ slot_vars' = slot_vars]_vars

\* The one operation that tests g_gripper_system_initialized returns false
\* when it is called without a controller.
ControlSmoothRefusedUninitialised ==
    [][(LifeCall /\ ~g_gripper_system_initialized
          /\ (api_call'.op = "control_smooth" \/ api_ret'.call.op = "control_smooth"))
          => /\ api_pc' = "idle"
             /\ ~api_ret'.ok
             /\ slot_vars' = slot_vars]_vars

====
